---- MODULE Spec2Model ----
(***************************************************************************)
(* Article resolution and content extraction of agent_smith:               *)
(*   - GoogleNewsFetcher (bot_agent_smith/src/skills/web_search):          *)
(*     rate limiter, URL decoding through GoogleDecoder, tiered content    *)
(*     extraction, fetch_articles;                                         *)
(*   - the older pipeline/search.py GoogleNewsFetcher.get_real_url /       *)
(*     fetch_articles, which shares the decoder protocol.                  *)
(* Every network call is one step; its outcome is chosen by the            *)
(* environment at that step.  Time is an integer number of seconds.        *)
(***************************************************************************)
EXTENDS Integers, Sequences, FiniteSets, TLC

----------------------------------------------------------------------------
(* Bounds of the model *)

\* longest feed the feed source returns
MaxEntries == 2
\* max_articles (constructor argument) ranges over 0..MaxArticles
MaxArticles == 2
\* the clock stops drifting on its own here (sleeps still advance it)
MaxTime == 9
\* number of acquire calls of the single-threaded limiter run
MaxAcquires == 3
\* number of tasks sharing one limiter in the concurrent run
NTasks == 2
\* longest URL path handed to get_base64_str directly, in tokens ("/" or a name)
MaxPathLen == 6
\* number of handle_event calls of the agent run
MaxHandled == 3
\* longest JSON array in an LLM response
MaxElements == 2
\* longest keyword list handed to ArticleSearchService.execute
MaxKeywords == 2
\* longest JSON array in the answer to the keyword prompt
MaxAnswered == 4
\* largest window_size a ConversationWindow is created with
MaxWindowSize == 2
\* number of add_message calls on one window
MaxAdds == 3
\* last second of a conversation run
MaxWindowTime == 7
\* longest URL handed to get_article_content as text, in pieces
MaxUrlPieces == 4
\* longest content handed to DiscordAdapter.send_message, in characters
MaxContentLen == 56
\* last position at which a content's delimiter starts
MaxFeatureAt == 8
\* number of get_or_create_window and add_message calls on one manager
MaxManagerCalls == 3
\* last minute of a manager run
MaxManagerTime == 60
\* the clock of the concurrent run stops here
MaxTaskTime == 6

(* Program constants *)

\* GoogleNewsFetcher.__init__: delay_between_requests = 2.0
Delay == 2
\* len(article_text) > 100
MinLen == 100
\* pipeline/search.py: decode_google_news_url(google_url, interval=5)
LegacyInterval == 5
\* pipeline/search.py: MAX_ARTICLES = 5
LegacyMaxArticles == 5

----------------------------------------------------------------------------
(* Values *)

\* Python None where a str is expected (a URL)
NoneUrl == "None"

L_ARTICLES == "https://news.google.com/rss/articles/CBMiA?oc=5"
L_READ == "https://news.google.com/read/CBMiB"
L_TOPICS == "https://news.google.com/topics/CAAqC"
U_PUB == "https://pub.example/story"
U_CONSENT == "https://consent.google.com/m?continue=https%3A%2F%2Fpub.example%2Fstory&gl=US"

\* a consent page whose continue parameter names another consent page
U_CONSENT2 == "https://consent.google.com/m?continue=https%3A%2F%2Fconsent.google.com%2Fm%3Fcontinue%3Dhttps%253A%252F%252Fpub.example%252Fstory%26gl%3DUS&gl=US"
\* a consent page without a continue parameter
U_CONSENT_BARE == "https://consent.google.com/m?gl=US"

\* links the feed hands out
GoogleLinks == {L_ARTICLES, L_READ, L_TOPICS}
\* destinations the batch-execute endpoint answers with
DecodedUrls == {U_PUB, U_CONSENT}

\* urlparse(source_url).hostname
hostname(u) ==
    CASE u \in GoogleLinks -> "news.google.com"
      [] u \in {U_CONSENT, U_CONSENT2, U_CONSENT_BARE} -> "consent.google.com"
      [] OTHER -> "pub.example"

\* urlparse(source_url).path.split("/")
path_split(u) ==
    CASE u = L_ARTICLES -> <<"", "rss", "articles", "CBMiA">>
      [] u = L_READ -> <<"", "read", "CBMiB">>
      [] u = L_TOPICS -> <<"", "topics", "CAAqC">>
      [] u \in {U_CONSENT, U_CONSENT2, U_CONSENT_BARE} -> <<"", "m">>
      [] OTHER -> <<"", "story">>

\* "consent.google.com" in url
is_consent(u) == u \in {U_CONSENT, U_CONSENT2, U_CONSENT_BARE}

\* _extract_actual_url_from_consent: unquote of the continue parameter, or None
extract_actual_url_from_consent(u) ==
    CASE u = U_CONSENT -> U_PUB
      [] u = U_CONSENT2 -> U_CONSENT
      [] OTHER -> NoneUrl

\* A text is known by the extractor that produced it and its length.
NoneText == [by |-> "None", len |-> 0]
EmptyStr == [by |-> "", len |-> 0]
Text(by, n) == IF n = 0 THEN EmptyStr ELSE [by |-> by, len |-> n]
\* Python truthiness of an Optional[str]
Truthy(t) == t # NoneText /\ t.len > 0
\* lengths a page text can have: empty, a stub, the threshold itself, real text
TextLens == {0, 50, MinLen, MinLen + 1}

\* html.unescape on one character token
unescape(c) == IF c = "&amp;" THEN "&" ELSE c

RECURSIVE collapse(_)
\* re.sub(r"\s+", " ", text) after html.unescape
collapse(s) ==
    IF s = <<>> THEN <<>>
    ELSE IF Len(s) >= 2 /\ s[1] = " " /\ s[2] = " " THEN collapse(Tail(s))
    ELSE <<unescape(s[1])>> \o collapse(Tail(s))

RECURSIVE lstrip(_)
lstrip(s) == IF s # <<>> /\ s[1] = " " THEN lstrip(Tail(s)) ELSE s

RECURSIVE rstrip(_)
rstrip(s) ==
    IF s # <<>> /\ s[Len(s)] = " " THEN rstrip(SubSeq(s, 1, Len(s) - 1)) ELSE s

\* GoogleNewsFetcher.clean_text
clean_text(s) == rstrip(lstrip(collapse(s)))

\* Feed entries as feedparser yields them (title and link always present).
EntryA == [title |-> <<"A", "&amp;", " ", " ", "a">>, link |-> L_ARTICLES,
           published |-> "Mon, 04 Nov 2024 10:00:00 GMT",
           hasSource |-> TRUE, source |-> "Pub",
           hasSummary |-> TRUE, summary |-> <<" ", "s", " ", " ", "t", " ">>,
           hasDescription |-> TRUE, description |-> <<"d">>]
EntryB == [title |-> <<" ", "B">>, link |-> L_READ,
           published |-> "2024-11-04T10:00:00Z",
           hasSource |-> FALSE, source |-> "",
           hasSummary |-> FALSE, summary |-> <<>>,
           hasDescription |-> TRUE, description |-> <<"d", " ", " ", "e">>]
EntryC == [title |-> <<"C">>, link |-> L_TOPICS,
           published |-> "Tue, 05 Nov 2024 08:30:00 GMT",
           hasSource |-> TRUE, source |-> "Other",
           hasSummary |-> FALSE, summary |-> <<>>,
           hasDescription |-> FALSE, description |-> <<>>]
FeedEntries == {EntryA, EntryB, EntryC}

\* every feed of at most MaxEntries entries
Feeds == UNION {[1..n -> FeedEntries] : n \in 0..MaxEntries}

\* what feedparser.parse returns: the entries of the feed, or, when the feed source
\* cannot be reached, no entry and the bozo bit (feedparser does not raise)
FeedResults ==
    {[bozo |-> FALSE, entries |-> f] : f \in Feeds}
    \cup {[bozo |-> TRUE, entries |-> <<>>]}

\* feed.entries[:self.max_articles]
Slice(s, m) == SubSeq(s, 1, IF m < Len(s) THEN m ELSE Len(s))

Min(a, b) == IF a < b THEN a ELSE b

----------------------------------------------------------------------------
(* State *)

VARIABLES
    variant,            \* which caller drives the run
    pc,                 \* control point of the sequential caller
    now,                \* time.time()
    last_request_time,  \* GoogleNewsFetcher.last_request_time
    max_articles,       \* GoogleNewsFetcher.max_articles / MAX_ARTICLES
    feed,               \* feed.entries as parsed
    idx,                \* position of the loop over the entries
    articles,           \* the list fetch_articles builds
    google_url,         \* argument of the running decode
    interval,           \* decode_google_news_url's interval (0: None)
    base64_str,         \* token handed from step 1 to steps 2 and 3
    params,             \* decoding_params_response
    decode_result,      \* what decode_google_news_url returned
    netlog,             \* acquires and requests of the running decode, with times
    urlChain,           \* URLs of the running get_article_content calls
    attempts,           \* strategy attempts of the running extraction
    full_content,       \* what get_article_content returned
    returns,            \* times at which acquire returned (limiter runs)
    task,               \* per task: the concurrent acquire's locals
    bozo,               \* feedparser's bozo bit: the feed could not be fetched
    results,            \* the list fetch_articles_main builds (pipeline/search.py)
    candidate_url,      \* argument of a direct get_base64_str call, as urlparse splits it
    processed_events,   \* Agent.processed_events
    adapters,           \* channel types with a registered adapter (Agent.adapters)
    event,              \* the event handle_event is running on
    needs_counter_arguments, \* the qualifier's verdict on it
    sent,               \* calls of the adapter's send_message, in order
    message_repository, \* messages stored by handle_event, in order
    handled,            \* what handle_event returned, per call
    running,            \* per asyncio task: the handle_event call it is suspended in
    keywords,           \* ArticleSearchService.execute's keywords
    llm_response,       \* response.response of the LLM client
    returned,           \* what a service's execute returned
    window_size,        \* ConversationWindow.window_size
    messages,           \* ConversationWindow.messages
    last_updated,       \* ConversationWindow.last_updated
    calls,              \* the messages handed to add_message, in order
    active_windows,     \* ConversationManager.active_windows, in insertion order
    window_calls,       \* what the manager's calls returned, in order
    state,              \* QualifiedWorkflowState of the running workflow
    executed,           \* the nodes the workflow has run, in order
    content,            \* the text handed to DiscordAdapter.send_message
    chunks_sent         \* the chunks sent for it, without their part markers

vars == <<variant, pc, now, last_request_time, max_articles, feed, idx, articles,
          google_url, interval, base64_str, params, decode_result, netlog,
          urlChain, attempts, full_content, returns, task, bozo, results,
          candidate_url, processed_events, adapters, event, needs_counter_arguments,
          sent, message_repository, handled, running, keywords, llm_response, returned,
          window_size, messages, last_updated, calls, active_windows, window_calls,
          state, executed, content, chunks_sent>>

pipeVars == <<max_articles, feed, idx, articles, bozo>>
decodeVars == <<google_url, interval, base64_str, params, decode_result, netlog>>
extractVars == <<urlChain, attempts, full_content>>
limiterVars == <<returns, task>>
agentVars == <<processed_events, adapters, event, needs_counter_arguments, sent,
               message_repository, handled, running>>
workflowVars == <<state, executed>>
skillVars == <<keywords, llm_response, returned, workflowVars>>
managerVars == <<active_windows, window_calls>>
windowVars == <<window_size, messages, last_updated, calls, managerVars>>
chunkVars == <<content, chunks_sent>>
otherVars == <<results, candidate_url, agentVars, skillVars, windowVars, chunkVars>>
\* everything the fetcher, the decoder, the limiter and the agent own
baseVars == <<now, last_request_time, pipeVars, decodeVars, extractVars, limiterVars,
              results, candidate_url, agentVars, chunkVars>>

----------------------------------------------------------------------------
(* RateLimiter: GoogleNewsFetcher._apply_rate_limit *)

\* a limiter that never sleeps
sleep_time_never(current_time, last) == 0

\* sleep_time = self.delay - time_since_last_request, when that is positive
sleep_time(current_time, last) ==
    IF current_time - last < Delay THEN Delay - (current_time - last) ELSE 0

\* a limiter that sleeps one second too little
acquire_return_short(current_time, last, o) ==
    current_time + (IF sleep_time(current_time, last) > 0
                    THEN sleep_time(current_time, last) - 1 ELSE 0) + o

\* the time at which _apply_rate_limit returns, time.sleep oversleeping by o
acquire_return(current_time, last, o) == current_time + sleep_time(current_time, last) + o

\* the whole of _apply_rate_limit in a sequential caller
ApplyRateLimit(o) ==
    /\ now' = acquire_return(now, last_request_time, o)
    /\ last_request_time' = now'

NoResult == [status |-> FALSE, message |-> "", decoded_url |-> NoneUrl]
NoParams == [status |-> FALSE, message |-> "", signature |-> "", timestamp |-> ""]
IdleTask == [pc |-> "idle", current_time |-> 0, read_last |-> 0, wake |-> 0, ret |-> 0]
\* no direct get_base64_str call is running
NoSourceUrl == [raises |-> FALSE, hostname |-> "None", path |-> <<>>]
\* no event is being handled
NoEvent == "None"
\* the task is in no handle_event call
NotRunning == [pc |-> "idle", event |-> [event_id |-> "None", channel |-> "None"]]

\* the state before any call, the clock already past Delay (time.time() is epoch time)
NoLlmResponse == [shape |-> "None", elements |-> <<>>]
NotReturned == [service |-> "None", value |-> <<>>]
NoState == [needs_counter_arguments |-> FALSE, keywords |-> <<>>, articles |-> <<>>,
            counter_arguments |-> <<>>, messages_to_send |-> <<>>, response |-> ""]

Blank(v, start, m) ==
    /\ variant = v
    /\ pc = start
    /\ now = Delay
    /\ last_request_time = 0
    /\ max_articles = m
    /\ feed = <<>>
    /\ idx = 0
    /\ articles = <<>>
    /\ google_url = NoneUrl
    /\ interval = 0
    /\ base64_str = ""
    /\ params = NoParams
    /\ decode_result = NoResult
    /\ netlog = <<>>
    /\ urlChain = <<>>
    /\ attempts = <<>>
    /\ full_content = NoneText
    /\ returns = <<>>
    /\ task = [t \in 1..NTasks |-> IdleTask]
    /\ bozo = FALSE
    /\ results = <<>>
    /\ candidate_url = NoSourceUrl
    /\ processed_events = {}
    /\ adapters = {}
    /\ event = NoEvent
    /\ needs_counter_arguments = FALSE
    /\ sent = <<>>
    /\ message_repository = <<>>
    /\ handled = <<>>
    /\ running = [t \in 1..NTasks |-> NotRunning]
    /\ keywords = <<>>
    /\ llm_response = NoLlmResponse
    /\ returned = NotReturned
    /\ window_size = 0
    /\ messages = <<>>
    /\ last_updated = 0
    /\ calls = <<>>
    /\ active_windows = <<>>
    /\ window_calls = <<>>
    /\ state = NoState
    /\ executed = <<>>
    /\ content = <<>>
    /\ chunks_sent = <<>>

\* how long time.sleep oversleeps: exact in the pipeline runs, free in the timed ones
Oversleep == IF variant \in {"decode", "limiter"} /\ now < MaxTime THEN {0, 1} ELSE {0}

\* time passing between two steps of a timed run (network latency, scheduling)
Tick ==
    /\ variant \in {"decode", "limiter", "tasks"}
    /\ now < (IF variant = "tasks" THEN MaxTaskTime ELSE MaxTime)
    /\ now' = now + 1
    /\ UNCHANGED <<variant, otherVars, pc, last_request_time, pipeVars, decodeVars, extractVars,
                   limiterVars>>

----------------------------------------------------------------------------
(* GoogleDecoder (google_decoder.py; pipeline/search.py holds the same protocol) *)

Fail(msg) == [status |-> FALSE, message |-> msg, decoded_url |-> NoneUrl]
Event(e) == [ev |-> e, at |-> now]

\* a get_base64_str that does not look at the host
base64_of_any_host(host, path) ==
    IF /\ Len(path) > 1
       /\ path[Len(path) - 1] \in {"articles", "read"}
    THEN [status |-> TRUE, base64_str |-> path[Len(path)], message |-> ""]
    ELSE [status |-> FALSE, base64_str |-> "", message |-> "Invalid Google News URL format."]

\* get_base64_str after urlparse and split: the test and the two results
base64_of(host, path) ==
    IF /\ host = "news.google.com"
       /\ Len(path) > 1
       /\ path[Len(path) - 1] \in {"articles", "read"}
    THEN [status |-> TRUE, base64_str |-> path[Len(path)], message |-> ""]
    ELSE [status |-> FALSE, base64_str |-> "", message |-> "Invalid Google News URL format."]

\* get_base64_str on the links and destinations of the pipeline runs
get_base64_str(source_url) == base64_of(hostname(source_url), path_split(source_url))

\* decode_google_news_url, step 1: the token, or the format failure returned as is
GetBase64Str ==
    /\ pc = "get_base64_str"
    /\ LET r == get_base64_str(google_url) IN
       IF r.status
       THEN /\ base64_str' = r.base64_str
            /\ pc' = "get_decoding_params"
            /\ UNCHANGED decode_result
       ELSE /\ decode_result' = Fail(r.message)
            /\ pc' = "decode_returned"
            /\ UNCHANGED base64_str
    /\ UNCHANGED <<variant, otherVars, now, last_request_time, pipeVars, google_url, interval,
                   params, netlog, extractVars, limiterVars>>

\* what a GET of a parameter page can give: a request error (network, non-2xx),
\* a page without the c-wiz element, a page with it, a page with the element but
\* without the two data attributes, or no answer at all (requests.get is called
\* without a timeout)
ParamOutcomes == {"error", "no_element", "element", "element_bare", "no_response"}

\* the try block of one template: GET, raise_for_status, css_first, the dict returned
\* (attributes.get gives None for an attribute the element lacks)
ParamsOf(outcome, template, failMsg) ==
    CASE outcome = "element" ->
            [status |-> TRUE, message |-> "", signature |-> "sg-" \o template,
             timestamp |-> "ts-" \o template]
      [] outcome = "element_bare" ->
            [status |-> TRUE, message |-> "", signature |-> "None", timestamp |-> "None"]
      [] OTHER ->
            [status |-> FALSE, message |-> failMsg, signature |-> "", timestamp |-> ""]

\* a get_decoding_params that hands a page without the element on to decode_url
after_primary_goes_on(outcome) ==
    CASE outcome = "error" -> "get_decoding_params_rss"
      [] outcome = "no_response" -> "hung"
      [] OTHER -> "decode_url"

\* get_decoding_params, outer try: the articles template; only an exception
\* reaches the handler that tries the RSS template; a request that is never
\* answered never returns
after_primary(outcome) ==
    CASE outcome = "error" -> "get_decoding_params_rss"
      [] outcome = "no_element" -> "decode_returned"
      [] outcome = "no_response" -> "hung"
      [] OTHER -> "decode_url"

\* get_decoding_params, the handler: the result of the rss template is returned
after_secondary(outcome) ==
    CASE outcome \in {"element", "element_bare"} -> "decode_url"
      [] outcome = "no_response" -> "hung"
      [] OTHER -> "decode_returned"

GetDecodingParams ==
    /\ pc = "get_decoding_params"
    /\ \E outcome \in ParamOutcomes :
        /\ now' = now
        /\ netlog' = Append(netlog, Event("GET articles"))
        /\ pc' = after_primary(outcome)
        /\ params' = IF outcome \in {"error", "no_response"} THEN params
                      ELSE ParamsOf(outcome, "articles",
                                    "Failed to fetch data attributes with articles URL")
        /\ decode_result' = IF pc' = "decode_returned" THEN Fail(params'.message)
                            ELSE decode_result
    /\ UNCHANGED <<variant, otherVars, last_request_time, pipeVars, google_url, interval,
                   base64_str, extractVars, limiterVars>>

\* get_decoding_params, the handler: the rss template
GetDecodingParamsRss ==
    /\ pc = "get_decoding_params_rss"
    /\ \E outcome \in ParamOutcomes :
        /\ now' = now
        /\ netlog' = Append(netlog, Event("GET rss"))
        /\ params' = IF outcome = "no_response" THEN params
                      ELSE ParamsOf(outcome, "rss",
                                    IF outcome = "error" THEN "Error in get_decoding_params"
                                    ELSE "Failed to fetch data attributes with RSS URL")
        /\ pc' = after_secondary(outcome)
        /\ decode_result' = IF pc' = "decode_returned" THEN Fail(params'.message)
                            ELSE decode_result
    /\ UNCHANGED <<variant, otherVars, last_request_time, pipeVars, google_url, interval,
                   base64_str, extractVars, limiterVars>>

\* what the batch-execute POST can give: a request error, a body that does not
\* parse, a body carrying a destination URL, or no answer at all (requests.post is
\* called without a timeout)
PostOutcomes == {"error", "unparsable", "no_response"} \cup DecodedUrls

\* what the URL slot of a well-formed body can hold when it is not an absolute URL:
\* JSON null (None in Python), a relative reference
NonUrlSlots == {NoneUrl, "/story"}

\* decode_url's result: whatever json.loads(parsed_data[0][2])[1] is, unexamined
decode_url(outcome) ==
    IF outcome \in DecodedUrls \cup NonUrlSlots
    THEN [status |-> TRUE, message |-> "", decoded_url |-> outcome]
    ELSE Fail("Error in decode_url")

\* decode_google_news_url, step 3 and its tail: decode_url, then the interval
\* sleep; the parameters are not used again
DecodeUrlOn(outcomes) ==
    /\ pc = "decode_url"
    /\ \E outcome \in outcomes :
        /\ netlog' = Append(netlog, Event("POST batchexecute"))
        /\ IF outcome = "no_response"
           THEN /\ pc' = "hung"
                /\ UNCHANGED <<now, decode_result, params>>
           ELSE /\ decode_result' = decode_url(outcome)
                /\ now' = now + interval
                /\ params' = NoParams
                /\ pc' = "decode_returned"
    /\ UNCHANGED <<variant, otherVars, last_request_time, pipeVars, google_url, interval,
                   base64_str, extractVars, limiterVars>>

\* the endpoint answers with a destination URL when it answers with a body at all
DecodeUrl == DecodeUrlOn(PostOutcomes)

\* the endpoint answers with a body whose URL slot holds no absolute URL
DecodeUrlNonUrl == variant = "decode" /\ DecodeUrlOn(NonUrlSlots)

----------------------------------------------------------------------------
(* GoogleNewsFetcher (google_news_fetcher.py) *)

\* the entries the loop of fetch_articles runs over
entries == Slice(feed, max_articles)

\* a fetch_articles that raises when the feed could not be fetched
after_parse_checked(r) == IF r.bozo THEN "raised" ELSE "loop"

\* fetch_articles never reads feed.bozo: the loop follows the parse in every case
after_parse(r) == "loop"

\* fetch_articles up to the loop: the rate limit, then feedparser.parse
FetchFeed ==
    /\ pc = "fetch_articles"
    /\ \E o \in Oversleep : ApplyRateLimit(o)
    /\ \E r \in FeedResults :
        /\ feed' = r.entries
        /\ bozo' = r.bozo
        /\ pc' = after_parse(r)
    /\ articles' = <<>>
    /\ idx' = 1
    /\ UNCHANGED <<variant, otherVars, max_articles, decodeVars, extractVars, limiterVars>>

\* the head of the for loop: the next entry's link goes to get_real_article_url,
\* or the list is returned
LoopHead ==
    /\ pc = "loop"
    /\ variant = "bot"
    /\ IF idx <= Len(entries)
       THEN /\ google_url' = entries[idx].link
            /\ pc' = "get_real_article_url"
       ELSE /\ pc' = "returned"
            /\ UNCHANGED google_url
    /\ UNCHANGED <<variant, otherVars, now, last_request_time, pipeVars, interval, base64_str,
                   params, decode_result, netlog, extractVars, limiterVars>>

\* get_real_article_url up to the decoder call: the one rate limit of a decode
GetRealArticleUrl ==
    /\ pc = "get_real_article_url"
    /\ \E o \in Oversleep : ApplyRateLimit(o)
    /\ netlog' = <<[ev |-> "acquire", at |-> now']>>
    /\ interval' = 0
    /\ base64_str' = ""
    /\ params' = NoParams
    /\ decode_result' = NoResult
    /\ pc' = "get_base64_str"
    /\ UNCHANGED <<variant, otherVars, pipeVars, google_url, extractVars, limiterVars>>

\* get_real_article_url after the decoder call
real_article_url(result, link) ==
    IF result.status THEN result.decoded_url ELSE link

\* content = clean_text(entry.summary), else of entry.description, else ""
summary_content(entry) ==
    IF entry.hasSummary THEN Text("summary", Len(clean_text(entry.summary)))
    ELSE IF entry.hasDescription
         THEN Text("description", Len(clean_text(entry.description)))
         ELSE EmptyStr

\* the article_data dictionary
article_data(entry, article_url) ==
    [title |-> clean_text(entry.title),
     url |-> article_url,
     source |-> IF entry.hasSource THEN entry.source ELSE "None",
     content |-> summary_content(entry)]

\* a list built at the front
prepend_article(list, a) == <<a>> \o list

\* articles.append(article_data)
append_article(list, a) == Append(list, a)

\* the loop body from the decoder's return to the call of get_article_content
BuildArticle ==
    /\ pc = "decode_returned"
    /\ variant = "bot"
    /\ LET article_url == real_article_url(decode_result, google_url) IN
        /\ articles' = append_article(articles, article_data(entries[idx], article_url))
        /\ urlChain' = <<article_url>>
    /\ attempts' = <<>>
    /\ full_content' = NoneText
    /\ pc' = "get_article_content"
    \* the decode's locals go out of scope
    /\ google_url' = NoneUrl
    /\ base64_str' = ""
    /\ params' = NoParams
    /\ decode_result' = NoResult
    /\ netlog' = <<>>
    /\ UNCHANGED <<variant, otherVars, now, last_request_time, max_articles, feed, idx,
                   bozo, interval, limiterVars>>

\* what a fetch-and-extract can give: an exception (-1), or a text of some length
\* (0 stands for None and for the empty string alike)
StrategyOutcomes == {-1} \cup TextLens
raised(outcome) == outcome < 0

\* article_text and len(article_text) > 100
usable(outcome) == ~raised(outcome) /\ outcome > MinLen

Attempt(k, ok) == [url |-> urlChain[Len(urlChain)], strategy |-> k, ok |-> ok]

\* an extractor without the consent branch
consent_target_never(url) == NoneUrl

\* the consent branch: the target to recurse into, or None
consent_target(url) ==
    IF is_consent(url)
    THEN LET actual_url == extract_actual_url_from_consent(url) IN
         IF actual_url # NoneUrl /\ actual_url # url THEN actual_url ELSE NoneUrl
    ELSE NoneUrl

\* get_article_content from its entry through Trafilatura and the consent branch
Trafilatura ==
    /\ pc = "get_article_content"
    /\ \E o \in Oversleep : ApplyRateLimit(o)
    /\ LET url == urlChain[Len(urlChain)] IN
       \E outcome \in StrategyOutcomes :
         IF usable(outcome)
         THEN /\ full_content' = Text("trafilatura", outcome)
              /\ attempts' = Append(attempts, Attempt(1, TRUE))
              /\ pc' = "content_returned"
              /\ UNCHANGED urlChain
         ELSE IF consent_target(url) # NoneUrl
         THEN /\ urlChain' = Append(urlChain, consent_target(url))
              /\ attempts' = attempts \o <<Attempt(1, FALSE), Attempt(2, TRUE)>>
              /\ pc' = "get_article_content"
              /\ UNCHANGED full_content
         ELSE /\ attempts' = Append(attempts, Attempt(1, FALSE))
              /\ pc' = "newspaper"
              /\ UNCHANGED <<urlChain, full_content>>
    /\ UNCHANGED <<variant, otherVars, pipeVars, decodeVars, limiterVars>>

\* the Newspaper3k block
Newspaper ==
    /\ pc = "newspaper"
    /\ \E outcome \in StrategyOutcomes :
         /\ attempts' = Append(attempts, Attempt(3, usable(outcome)))
         /\ IF usable(outcome)
            THEN /\ full_content' = Text("newspaper", outcome)
                 /\ pc' = "content_returned"
            ELSE /\ pc' = "playwright"
                 /\ UNCHANGED full_content
    /\ UNCHANGED <<variant, otherVars, now, last_request_time, pipeVars, decodeVars, urlChain,
                   limiterVars>>

\* what the browser can give: an exception (launch, goto, evaluate), or a rendered
\* page with the length Trafilatura extracts from it and that of its innerText
PlaywrightOutcomes ==
    {[raise |-> TRUE, traf |-> 0, body |-> 0]}
    \cup {[raise |-> FALSE, traf |-> t, body |-> b] : t \in TextLens, b \in TextLens}

\* get_article_content_with_playwright
get_article_content_with_playwright(outcome) ==
    IF outcome.raise THEN NoneText
    ELSE IF outcome.traf > MinLen THEN Text("playwright_trafilatura", outcome.traf)
    ELSE Text("playwright_body", outcome.body)

\* the Playwright call and the test of its result
Playwright ==
    /\ pc = "playwright"
    /\ \E outcome \in PlaywrightOutcomes :
        LET playwright_content == get_article_content_with_playwright(outcome) IN
         /\ attempts' = Append(attempts, Attempt(4, playwright_content.len > MinLen))
         /\ IF Truthy(playwright_content)
            THEN /\ full_content' = playwright_content
                 /\ pc' = "content_returned"
            ELSE /\ pc' = "basic_html_extraction"
                 /\ UNCHANGED full_content
    /\ UNCHANGED <<variant, otherVars, now, last_request_time, pipeVars, decodeVars, urlChain,
                   limiterVars>>

\* _basic_html_extraction: the stripped and cleaned text whatever its length, or None
basic_html_extraction(outcome) ==
    IF raised(outcome) THEN NoneText ELSE Text("basic_html", outcome)

\* return self._basic_html_extraction(url)
BasicHtmlExtraction ==
    /\ pc = "basic_html_extraction"
    /\ \E outcome \in StrategyOutcomes :
         /\ full_content' = basic_html_extraction(outcome)
         /\ attempts' = Append(attempts, Attempt(5, usable(outcome)))
    /\ pc' = "content_returned"
    /\ UNCHANGED <<variant, otherVars, now, last_request_time, pipeVars, decodeVars, urlChain,
                   limiterVars>>

\* a store that blanks the content when extraction failed
store_content_or_empty(a, text) ==
    [a EXCEPT !.content = IF Truthy(text) THEN text ELSE EmptyStr]

\* if full_content: article_data["content"] = full_content
store_content(a, text) == IF Truthy(text) THEN [a EXCEPT !.content = text] ELSE a

\* the end of the loop body
StoreContent ==
    /\ pc = "content_returned"
    /\ variant = "bot"
    /\ articles' = [articles EXCEPT ![Len(articles)] = store_content(@, full_content)]
    /\ idx' = idx + 1
    /\ pc' = "loop"
    \* the extraction's locals go out of scope
    /\ urlChain' = <<>>
    /\ attempts' = <<>>
    /\ full_content' = NoneText
    /\ UNCHANGED <<variant, otherVars, now, last_request_time, max_articles, feed, bozo,
                   decodeVars, limiterVars>>

\* the fetcher as constructed, fetch_articles called once
Init == \E m \in 0..MaxArticles : Blank("bot", "fetch_articles", m)

Next ==
    \/ FetchFeed
    \/ LoopHead
    \/ GetRealArticleUrl
    \/ GetBase64Str
    \/ GetDecodingParams
    \/ GetDecodingParamsRss
    \/ DecodeUrl
    \/ BuildArticle
    \/ Trafilatura
    \/ Newspaper
    \/ Playwright
    \/ BasicHtmlExtraction
    \/ StoreContent

Spec == Init /\ [][Next]_vars

----------------------------------------------------------------------------
(* get_article_content called on one URL *)

\* URLs an extraction can be asked for
ExtractUrls == DecodedUrls \cup GoogleLinks \cup {U_CONSENT2, U_CONSENT_BARE}

\* a caller of get_article_content, as the loop of fetch_articles is
CallGetArticleContent ==
    /\ pc = "caller"
    /\ variant = "extract"
    /\ \E url \in ExtractUrls : urlChain' = <<url>>
    /\ attempts' = <<>>
    /\ full_content' = NoneText
    /\ pc' = "get_article_content"
    /\ UNCHANGED <<variant, otherVars, now, last_request_time, pipeVars, decodeVars,
                   limiterVars>>

InitExtract == Blank("extract", "caller", 0)

NextExtract ==
    \/ CallGetArticleContent
    \/ Trafilatura
    \/ Newspaper
    \/ Playwright
    \/ BasicHtmlExtraction

SpecExtract == InitExtract /\ [][NextExtract]_vars

----------------------------------------------------------------------------
(* get_base64_str called on one URL of any shape *)

\* the pieces a URL path is made of: the separator and three segment names
PathTokens == {"/", "articles", "read", "CBMiA"}

\* paths of at most MaxPathLen tokens; two names never touch (they would be one name)
Paths ==
    {p \in UNION {[1..n -> PathTokens] : n \in 0..MaxPathLen} :
        \A i \in 1..Len(p) - 1 : p[i] = "/" \/ p[i + 1] = "/"}

\* URLs as urlparse splits them (hostname None when the URL has no netloc), and a
\* URL urlparse rejects with a ValueError
SourceUrls ==
    {[raises |-> FALSE, hostname |-> h, path |-> p] :
        h \in {"news.google.com", "news.example.com", "None"}, p \in Paths}
    \cup {[raises |-> TRUE, hostname |-> "None", path |-> <<>>]}

RECURSIVE split(_)
\* url.path.split("/")
split(p) ==
    IF p = <<>> THEN <<"">>
    ELSE IF p[1] = "/" THEN <<"">> \o split(Tail(p))
    ELSE IF Len(p) = 1 THEN <<p[1]>>
    ELSE <<p[1]>> \o split(Tail(Tail(p)))

\* get_base64_str with its try and except
get_base64_str_parsed(u) ==
    IF u.raises
    THEN [status |-> FALSE, base64_str |-> "", message |-> "Error in get_base64_str"]
    ELSE base64_of(u.hostname, split(u.path))

\* one call of get_base64_str
CallGetBase64Str ==
    /\ pc = "token_caller"
    /\ \E u \in SourceUrls :
        /\ candidate_url' = u
        /\ LET r == get_base64_str_parsed(u) IN
            /\ base64_str' = r.base64_str
            /\ decode_result' = [status |-> r.status, message |-> r.message,
                                  decoded_url |-> NoneUrl]
    /\ pc' = "token_returned"
    /\ UNCHANGED <<variant, now, last_request_time, pipeVars, google_url, interval,
                   params, netlog, extractVars, limiterVars, results, agentVars, skillVars,
                   windowVars, chunkVars>>

InitToken == Blank("token", "token_caller", 0)

NextToken == CallGetBase64Str

SpecToken == InitToken /\ [][NextToken]_vars

----------------------------------------------------------------------------
(* get_real_article_url called again and again, time passing between the steps *)

\* a caller of get_real_article_url, as the loop of fetch_articles is
CallGetRealArticleUrl ==
    /\ pc = "caller"
    /\ variant = "decode"
    /\ now < MaxTime
    /\ \E link \in GoogleLinks : google_url' = link
    /\ pc' = "get_real_article_url"
    /\ UNCHANGED <<variant, otherVars, now, last_request_time, pipeVars, interval, base64_str,
                   params, decode_result, netlog, extractVars, limiterVars>>

\* get_real_article_url returns real_article_url(decode_result, google_url)
ReturnRealArticleUrl ==
    /\ pc = "decode_returned"
    /\ variant = "decode"
    /\ pc' = "caller"
    /\ google_url' = NoneUrl
    /\ base64_str' = ""
    /\ params' = NoParams
    /\ decode_result' = NoResult
    /\ netlog' = <<>>
    /\ UNCHANGED <<variant, otherVars, now, last_request_time, pipeVars, interval, extractVars,
                   limiterVars>>

InitDecode == Blank("decode", "caller", 0)

NextDecode ==
    \/ Tick
    \/ CallGetRealArticleUrl
    \/ GetRealArticleUrl
    \/ GetBase64Str
    \/ GetDecodingParams
    \/ GetDecodingParamsRss
    \/ DecodeUrl
    \/ DecodeUrlNonUrl
    \/ ReturnRealArticleUrl

SpecDecode == InitDecode /\ [][NextDecode]_vars

----------------------------------------------------------------------------
(* _apply_rate_limit called MaxAcquires times by one sequential caller *)

Acquire ==
    /\ pc = "caller"
    /\ variant = "limiter"
    /\ Len(returns) < MaxAcquires
    /\ \E o \in Oversleep : ApplyRateLimit(o)
    /\ returns' = Append(returns, now')
    /\ UNCHANGED <<variant, otherVars, pc, pipeVars, decodeVars, extractVars, task>>

InitLimiter == Blank("limiter", "caller", 0)

NextLimiter == Tick \/ Acquire

SpecLimiter == InitLimiter /\ [][NextLimiter]_vars

----------------------------------------------------------------------------
(* _apply_rate_limit called once by each of NTasks tasks on one shared fetcher; *)
(* a step is one read or write of shared state, or the sleep                  *)

Tasks == 1..NTasks

\* current_time = time.time()
ReadClock(t) ==
    /\ task[t].pc = "idle"
    /\ task' = [task EXCEPT ![t].pc = "read_last", ![t].current_time = now]
    /\ UNCHANGED <<variant, otherVars, pc, now, last_request_time, pipeVars, decodeVars,
                   extractVars, returns>>

\* time_since_last_request = current_time - self.last_request_time; the test;
\* time.sleep(sleep_time) begins
ReadLast(t) ==
    /\ task[t].pc = "read_last"
    /\ LET st == sleep_time(task[t].current_time, last_request_time) IN
       \* current_time is dead from here on
       task' = [task EXCEPT ![t].read_last = last_request_time,
                            ![t].current_time = 0,
                            ![t].wake = IF st > 0 THEN now + st ELSE 0,
                            ![t].pc = IF st > 0 THEN "sleeping" ELSE "write"]
    /\ UNCHANGED <<variant, otherVars, pc, now, last_request_time, pipeVars, decodeVars,
                   extractVars, returns>>

\* time.sleep returns, no earlier than asked
Wake(t) ==
    /\ task[t].pc = "sleeping"
    /\ now >= task[t].wake
    /\ task' = [task EXCEPT ![t].pc = "write", ![t].wake = 0]
    /\ UNCHANGED <<variant, otherVars, pc, now, last_request_time, pipeVars, decodeVars,
                   extractVars, returns>>

\* self.last_request_time = time.time(), and the return
WriteLast(t) ==
    /\ task[t].pc = "write"
    /\ last_request_time' = now
    /\ task' = [task EXCEPT ![t].pc = "done", ![t].ret = now]
    /\ UNCHANGED <<variant, otherVars, pc, now, pipeVars, decodeVars, extractVars, returns>>

InitTasks == Blank("tasks", "caller", 0)

NextTasks ==
    \/ Tick
    \/ \E t \in Tasks : ReadClock(t)
    \/ \E t \in Tasks : ReadLast(t)
    \/ \E t \in Tasks : Wake(t)
    \/ \E t \in Tasks : WriteLast(t)

SpecTasks == InitTasks /\ [][NextTasks]_vars

----------------------------------------------------------------------------
(* pipeline/search.py: GoogleNewsFetcher.fetch_articles and get_real_url *)

\* datetime.strptime(entry.published, "%a, %d %b %Y %H:%M:%S %Z").isoformat()
published_iso(p) ==
    CASE p = "Mon, 04 Nov 2024 10:00:00 GMT" -> "2024-11-04T10:00:00"
      [] p = "Tue, 05 Nov 2024 08:30:00 GMT" -> "2024-11-05T08:30:00"
      [] OTHER -> "ValueError"

\* fetch_articles up to the loop: feedparser.parse
LegacyParseFeed ==
    /\ pc = "legacy_fetch_articles"
    /\ \E r \in FeedResults :
        /\ feed' = r.entries
        /\ bozo' = r.bozo
    /\ articles' = <<>>
    /\ idx' = 1
    /\ pc' = "legacy_loop"
    /\ UNCHANGED <<variant, otherVars, now, last_request_time, max_articles, decodeVars,
                   extractVars, limiterVars>>

\* the head of the for loop: get_real_url(entry.link) up to the decoder call
LegacyLoopHead ==
    /\ pc = "legacy_loop"
    /\ IF idx <= Len(entries)
       THEN /\ google_url' = entries[idx].link
            /\ interval' = LegacyInterval
            /\ pc' = "get_base64_str"
       ELSE /\ pc' = "legacy_returned"
            /\ UNCHANGED <<google_url, interval>>
    /\ UNCHANGED <<variant, otherVars, now, last_request_time, pipeVars, base64_str, params,
                   decode_result, netlog, extractVars, limiterVars>>

\* get_real_url after the decoder call: decoded_url["decoded_url"], and None when
\* the key is missing (the KeyError is caught)
get_real_url(result) == IF result.status THEN result.decoded_url ELSE NoneUrl

\* the article dictionary of pipeline/search.py
legacy_article(entry, real_url) ==
    [title |-> clean_text(entry.title),
     google_link |-> entry.link,
     published |-> published_iso(entry.published),
     link |-> real_url,
     source |-> IF entry.hasSource THEN entry.source ELSE "None"]

\* the loop body after get_real_url; a ValueError of strptime reaches the handler
\* of fetch_articles, which returns []
LegacyBuildArticle ==
    /\ pc = "decode_returned"
    /\ variant = "legacy"
    /\ LET a == legacy_article(entries[idx], get_real_url(decode_result)) IN
       IF a.published = "ValueError"
       THEN /\ articles' = <<>>
            /\ pc' = "legacy_returned"
            /\ UNCHANGED idx
       ELSE /\ articles' = Append(articles, a)
            /\ idx' = idx + 1
            /\ pc' = "legacy_loop"
    /\ google_url' = NoneUrl
    /\ base64_str' = ""
    /\ params' = NoParams
    /\ decode_result' = NoResult
    /\ netlog' = <<>>
    /\ UNCHANGED <<variant, otherVars, now, last_request_time, max_articles, feed, bozo,
                   interval, extractVars, limiterVars>>

\* fetch_articles_main after fetch_articles: the loop over the articles calls
\* fetch_article_content, whose first statement reads the global app, which
\* pipeline/search.py never defines (NameError); without articles the loop does
\* not run and the empty list is returned
FetchArticlesMain ==
    /\ pc = "legacy_returned"
    /\ IF articles = <<>>
       THEN /\ results' = <<>>
            /\ pc' = "main_returned"
       ELSE /\ pc' = "main_raised"
            /\ UNCHANGED results
    /\ UNCHANGED <<variant, chunkVars, skillVars, windowVars, candidate_url, agentVars, now, last_request_time, pipeVars,
                   decodeVars, extractVars, limiterVars>>

InitLegacy == Blank("legacy", "legacy_fetch_articles", LegacyMaxArticles)

NextLegacy ==
    \/ LegacyParseFeed
    \/ LegacyLoopHead
    \/ GetBase64Str
    \/ GetDecodingParams
    \/ GetDecodingParamsRss
    \/ DecodeUrl
    \/ LegacyBuildArticle
    \/ FetchArticlesMain

SpecLegacy == InitLegacy /\ [][NextLegacy]_vars

----------------------------------------------------------------------------
(* Agent.handle_event (core/agent.py), one call at a time *)

\* events the adapters deliver: an id and the type of the channel it came through
Events == [event_id : {"e1", "e2"}, channel : {"discord", "web"}]

ACK == "I'm looking for different perspectives on this topic."

\* handle_event returned None
NoResponse == ""

\* what workflow.invoke leaves in result["response"]
WorkflowResponses == {NoResponse, "response"}

\* register_adapter
RegisterAdapter ==
    /\ pc = "agent_idle"
    /\ \E channel_type \in {"discord", "web"} :
        /\ channel_type \notin adapters
        /\ adapters' = adapters \cup {channel_type}
    /\ UNCHANGED <<variant, chunkVars, skillVars, windowVars, results, candidate_url, pc, now, last_request_time, pipeVars,
                   decodeVars, extractVars, limiterVars, processed_events, event,
                   needs_counter_arguments, sent, message_repository, handled, running>>

\* handle_event up to its first await: a known event id is skipped; otherwise the
\* id is remembered, the message stored and qualified
HandleEvent ==
    /\ pc = "agent_idle"
    /\ Len(handled) < MaxHandled
    /\ \E e \in Events :
        IF e.event_id \in processed_events
        THEN /\ handled' = Append(handled, [event |-> e, needs |-> FALSE,
                                             adapter |-> e.channel \in adapters,
                                             response |-> NoResponse])
             /\ UNCHANGED <<pc, processed_events, event, needs_counter_arguments,
                            message_repository>>
        ELSE /\ processed_events' = processed_events \cup {e.event_id}
             /\ event' = e
             /\ message_repository' =
                    Append(message_repository, [kind |-> "message", of |-> e.event_id])
             /\ \E verdict \in BOOLEAN :
                    /\ needs_counter_arguments' = verdict
                    /\ pc' = IF verdict /\ e.channel \in adapters
                             THEN "send_acknowledgment" ELSE "invoke_workflow"
             /\ UNCHANGED handled
    /\ UNCHANGED <<variant, chunkVars, skillVars, windowVars, results, candidate_url, now, last_request_time, pipeVars,
                   decodeVars, extractVars, limiterVars, adapters, sent, running>>

\* await channel_adapter.send_message(ack_message), then the acknowledgment is stored
SendAcknowledgment ==
    /\ pc = "send_acknowledgment"
    /\ sent' = Append(sent, [channel |-> event.channel, reply_to |-> event.event_id,
                              content |-> ACK])
    /\ message_repository' =
            Append(message_repository, [kind |-> "acknowledgment", of |-> event.event_id])
    /\ pc' = "invoke_workflow"
    /\ UNCHANGED <<variant, chunkVars, skillVars, windowVars, results, candidate_url, now, last_request_time, pipeVars,
                   decodeVars, extractVars, limiterVars, processed_events, adapters,
                   event, needs_counter_arguments, handled, running>>

\* what handle_event sends once the workflow has run: nothing, the response is
\* only stored and returned ("Just return the response, don't send it")
deliver(log, e, response) == log

\* self.workflow.invoke(workflow_input) and the end of handle_event
InvokeWorkflow ==
    /\ pc = "invoke_workflow"
    /\ \E response \in WorkflowResponses :
        /\ message_repository' =
                IF response # NoResponse
                THEN Append(message_repository, [kind |-> "response", of |-> event.event_id])
                ELSE message_repository
        /\ sent' = deliver(sent, event, response)
        /\ handled' = Append(handled, [event |-> event, needs |-> needs_counter_arguments,
                                        adapter |-> event.channel \in adapters,
                                        response |-> response])
    /\ event' = NoEvent
    /\ needs_counter_arguments' = FALSE
    /\ pc' = "agent_idle"
    /\ UNCHANGED <<variant, chunkVars, skillVars, windowVars, results, candidate_url, now, last_request_time, pipeVars,
                   decodeVars, extractVars, limiterVars, processed_events, adapters,
                   running>>

InitAgent == Blank("agent", "agent_idle", 0)

NextAgent ==
    \/ RegisterAdapter
    \/ HandleEvent
    \/ SendAcknowledgment
    \/ InvokeWorkflow

SpecAgent == InitAgent /\ [][NextAgent]_vars

----------------------------------------------------------------------------
(* Agent.handle_event called from several asyncio tasks (one per on_message):
   a call runs without interruption from one await to the next *)

\* a handle_event without the check of processed_events
never_processed(event_id) == FALSE

\* event.event_id in self.processed_events
already_processed(event_id) == event_id \in processed_events

\* the repository after the response of a finished call was stored
with_response(repository, e, response) ==
    IF response # NoResponse
    THEN Append(repository, [kind |-> "response", of |-> e.event_id])
    ELSE repository

\* handle_event from its entry to its first await, or to its end when it has
\* nothing to await: a known event id returns None at once; otherwise the id is
\* remembered, the message stored and qualified, and either the send of the
\* acknowledgment is awaited or the workflow runs and the call returns
TaskHandleEvent(t) ==
    /\ running[t].pc = "idle"
    /\ Len(handled) < MaxHandled
    /\ \E e \in Events :
        IF already_processed(e.event_id)
        THEN /\ handled' = Append(handled, [event |-> e, task |-> t, processed |-> FALSE,
                                             response |-> NoResponse])
             /\ UNCHANGED <<processed_events, message_repository, running>>
        ELSE /\ processed_events' = processed_events \cup {e.event_id}
             /\ \E verdict \in BOOLEAN :
                    IF verdict /\ e.channel \in adapters
                    THEN /\ running' = [running EXCEPT ![t] =
                                            [pc |-> "send_acknowledgment", event |-> e]]
                         /\ message_repository' =
                                Append(message_repository,
                                       [kind |-> "message", of |-> e.event_id])
                         /\ UNCHANGED handled
                    ELSE \E response \in WorkflowResponses :
                         /\ message_repository' =
                                with_response(
                                    Append(message_repository,
                                           [kind |-> "message", of |-> e.event_id]),
                                    e, response)
                         /\ handled' = Append(handled,
                                [event |-> e, task |-> t, processed |-> TRUE,
                                 response |-> response])
                         /\ UNCHANGED running
    /\ UNCHANGED <<variant, chunkVars, skillVars, windowVars, results, candidate_url, pc, now,
                   last_request_time, pipeVars, decodeVars, extractVars, limiterVars,
                   adapters, event, needs_counter_arguments, sent>>

\* the adapter sends the acknowledgment while the call is suspended in its await
TaskSendAcknowledgment(t) ==
    /\ running[t].pc = "send_acknowledgment"
    /\ sent' = Append(sent, [channel |-> running[t].event.channel,
                              reply_to |-> running[t].event.event_id, content |-> ACK])
    /\ running' = [running EXCEPT ![t].pc = "resume"]
    /\ UNCHANGED <<variant, chunkVars, skillVars, windowVars, results, candidate_url, pc, now,
                   last_request_time, pipeVars, decodeVars, extractVars, limiterVars,
                   processed_events, adapters, event, needs_counter_arguments,
                   message_repository, handled>>

\* the call resumes: the acknowledgment is stored, the workflow runs, the
\* response is stored and returned
TaskInvokeWorkflow(t) ==
    /\ running[t].pc = "resume"
    /\ \E response \in WorkflowResponses :
        /\ message_repository' =
                with_response(
                    Append(message_repository,
                           [kind |-> "acknowledgment", of |-> running[t].event.event_id]),
                    running[t].event, response)
        /\ handled' = Append(handled, [event |-> running[t].event, task |-> t,
                                        processed |-> TRUE, response |-> response])
    /\ running' = [running EXCEPT ![t] = NotRunning]
    /\ UNCHANGED <<variant, chunkVars, skillVars, windowVars, results, candidate_url, pc, now,
                   last_request_time, pipeVars, decodeVars, extractVars, limiterVars,
                   processed_events, adapters, event, needs_counter_arguments, sent>>

InitAgentTasks == Blank("agent_tasks", "agent_idle", 0)

NextAgentTasks ==
    \/ RegisterAdapter
    \/ \E t \in Tasks : TaskHandleEvent(t)
    \/ \E t \in Tasks : TaskSendAcknowledgment(t)
    \/ \E t \in Tasks : TaskInvokeWorkflow(t)

SpecAgentTasks == InitAgentTasks /\ [][NextAgentTasks]_vars

----------------------------------------------------------------------------
(* The LLM-backed services: ArticleSearchService and KeywordExtractionService.
   A text is the sequence of the pieces an f-string joins; "" is <<>>. *)

\* sequences over S of length lo..hi
SeqsOf(S, lo, hi) == UNION {[1..n -> S] : n \in lo..hi}

KeywordValues == {"ai", "job market"}

\* str.capitalize
capitalize(k) == CASE k = "ai" -> "Ai" [] k = "job market" -> "Job market" [] OTHER -> k

\* str.replace(' ', '-')
replace_spaces(k) == CASE k = "job market" -> "job-market" [] OTHER -> k

\* ', '.join(keywords) and '-'.join(keywords), as their pieces
join(sep, ks) == [i \in 1..(2 * Len(ks) - 1) |-> IF i % 2 = 1 THEN ks[(i + 1) \div 2] ELSE sep]

\* str.startswith('http')
startswith_http(text) ==
    /\ Len(text) > 0
    /\ text[1] \in {"https://example.com/article/", "https://example.com/alternative-view/",
                    "https://news.example/a"}

\* the values an LLM may put under a key of an article object
TitleValues == {<<>>, <<"A title">>}
ContentValues == {<<>>, <<"A summary.">>}
UrlValues == {<<"www.news.example/a">>, <<"https://news.example/a">>}

\* JSON objects with any subset of the three keys
ArticleObjects ==
    UNION {UNION {UNION {
        {[k \in K |-> CASE k = "title" -> t [] k = "content" -> c [] OTHER -> u] :
            K \in SUBSET {"title", "content", "url"}} :
        t \in TitleValues} : c \in ContentValues} : u \in UrlValues}

\* elements of a JSON array: objects, and anything else (a string, a number, null)
ArticleElements ==
    {[object |-> TRUE, dict |-> d] : d \in ArticleObjects}
        \cup {[object |-> FALSE, dict |-> <<>>]}

\* response texts, by what the regex and json.loads make of them:
\*   text          no bracket pair and not JSON
\*   object        a JSON value without a bracket pair that is not an array
\*   array         a JSON array, alone or with text around it
\*   brackets      a bracket pair whose span is not JSON
\*   two_arrays    two JSON arrays with text between them ("elements": the first)
ArticleResponses ==
    {[shape |-> sh, elements |-> <<>>] : sh \in {"text", "object", "brackets", "two_arrays"}}
        \cup {[shape |-> "array", elements |-> es] :
                 es \in SeqsOf(ArticleElements, 0, MaxElements)}

\* re.search(r'\[.*\]') then json.loads of the match, or of the whole text; the
\* greedy match runs from the first "[" to the last "]"
json_loads(r) ==
    CASE r.shape = "array" -> [raises |-> FALSE, is_list |-> TRUE, value |-> r.elements]
      [] r.shape = "object" -> [raises |-> FALSE, is_list |-> FALSE, value |-> <<>>]
      [] OTHER -> [raises |-> TRUE, is_list |-> FALSE, value |-> <<>>]

\* _generate_default_articles: two articles per keyword
generate_default_articles(ks) ==
    [i \in 1..(2 * Len(ks)) |->
        IF i % 2 = 1
        THEN [object |-> TRUE,
              dict |-> [title |-> <<"Understanding ", capitalize(ks[(i + 1) \div 2])>>,
                        content |-> <<"This article provides an overview of ",
                                      ks[(i + 1) \div 2], " and its implications.">>,
                        url |-> <<"https://example.com/article/",
                                  replace_spaces(ks[(i + 1) \div 2])>>]]
        ELSE [object |-> TRUE,
              dict |-> [title |-> <<"Challenging Common Views on ", capitalize(ks[i \div 2])>>,
                        content |-> <<"This article presents alternative perspectives on ",
                                      ks[i \div 2], ", questioning some assumptions.">>,
                        url |-> <<"https://example.com/alternative-view/",
                                  replace_spaces(ks[i \div 2])>>]]]

\* the loop over the parsed list: a missing key is filled in, a present one is
\* kept whatever its value, an element that is not an object is left alone
fill_required_fields(article, ks) ==
    IF ~article.object THEN article
    ELSE [object |-> TRUE,
          dict |-> [k \in {"title", "content", "url"} |->
                      IF k \in DOMAIN article.dict THEN article.dict[k]
                      ELSE CASE k = "title" -> <<"Article about ">> \o join(", ", ks)
                             [] k = "content" -> <<"This article discusses topics related to ">>
                                                    \o join(", ", ks) \o <<".">>
                             [] OTHER -> <<"https://example.com/article/">> \o join("-", ks)]]

\* ArticleSearchService.execute after the LLM has answered
article_search(ks, r) ==
    IF json_loads(r).raises \/ ~json_loads(r).is_list
    THEN generate_default_articles(ks)
    ELSE [i \in 1..Len(json_loads(r).value) |->
            fill_required_fields(json_loads(r).value[i], ks)]

ArticleSearchExecute ==
    /\ pc = "skill_caller"
    /\ \E ks \in SeqsOf(KeywordValues, 1, MaxKeywords), r \in ArticleResponses :
        /\ keywords' = ks
        /\ llm_response' = r
        /\ returned' = [service |-> "article_search", value |-> article_search(ks, r)]
    /\ pc' = "skill_returned"
    /\ UNCHANGED <<variant, baseVars, windowVars, workflowVars>>

\* the caller takes the result
SkillReturn ==
    /\ pc = "skill_returned"
    /\ keywords' = <<>>
    /\ llm_response' = NoLlmResponse
    /\ returned' = NotReturned
    /\ pc' = "skill_caller"
    /\ UNCHANGED <<variant, baseVars, windowVars, workflowVars>>

\* elements of the JSON array answering the keyword prompt: strings (a keyword,
\* the empty string, blanks) and a value that is not a string
KeywordElements ==
    {[str |-> TRUE, value |-> v] : v \in {"ai", "", " "}} \cup {[str |-> FALSE, value |-> "5"]}

\* str.strip
strip(v) == IF v = " " THEN "" ELSE v

KeywordResponses ==
    {[shape |-> sh, elements |-> <<>>] : sh \in {"text", "object", "brackets"}}
        \cup {[shape |-> sh, elements |-> es] :
                 sh \in {"array", "two_arrays"},
                 es \in SeqsOf(KeywordElements, 0, MaxAnswered)}

\* re.search(r'\[.*?\]') then json.loads of the match, or of the whole text; the
\* non-greedy match runs from the first "[" to the first "]"
json_loads_first(r) ==
    CASE r.shape \in {"array", "two_arrays"} ->
            [raises |-> FALSE, is_list |-> TRUE, value |-> r.elements]
      [] r.shape = "object" -> [raises |-> FALSE, is_list |-> FALSE, value |-> <<>>]
      [] OTHER -> [raises |-> TRUE, is_list |-> FALSE, value |-> <<>>]

DefaultKeywords ==
    <<[str |-> TRUE, value |-> "artificial intelligence"], [str |-> TRUE, value |-> "ethics"],
      [str |-> TRUE, value |-> "technology"]>>

\* keywords[:3], then "technology" appended while fewer than 3
limit_and_pad(ks) ==
    [i \in 1..3 |-> IF i <= Len(ks) THEN ks[i] ELSE [str |-> TRUE, value |-> "technology"]]

\* KeywordExtractionService.execute after the LLM has answered
keyword_extraction(r) ==
    IF json_loads_first(r).raises \/ ~json_loads_first(r).is_list
    THEN DefaultKeywords
    ELSE limit_and_pad(json_loads_first(r).value)

KeywordExtractionExecute ==
    /\ pc = "skill_caller"
    /\ \E r \in KeywordResponses :
        /\ llm_response' = r
        /\ returned' = [service |-> "keyword_extraction", value |-> keyword_extraction(r)]
    /\ pc' = "skill_returned"
    /\ UNCHANGED <<variant, baseVars, windowVars, workflowVars, keywords>>

InitKeywords == Blank("keywords", "skill_caller", 0)

NextKeywords ==
    \/ KeywordExtractionExecute
    \/ SkillReturn

SpecKeywords == InitKeywords /\ [][NextKeywords]_vars

InitSearch == Blank("search", "skill_caller", 0)

NextSearch ==
    \/ ArticleSearchExecute
    \/ SkillReturn

SpecSearch == InitSearch /\ [][NextSearch]_vars

----------------------------------------------------------------------------
(* ConversationWindow (orchestration/conversation/window.py) *)

\* _is_duplicate's time_close: timestamps less than this many seconds apart
DuplicateSeconds == 5

\* messages a conversation receives at time t (Message.timestamp is set on creation)
MessagesAt(t) == [content : {"hello", "bye"}, author : {"user123", "bot123"}, timestamp : {t}]

\* a window that is never trimmed
whole_list(lst, n) == lst

\* python's lst[-n:]: the last n elements, and the whole list when n = 0
last_slice(lst, n) ==
    IF n = 0 \/ n >= Len(lst) THEN lst ELSE SubSeq(lst, Len(lst) - n + 1, Len(lst))

\* abs
abs(x) == IF x < 0 THEN -x ELSE x

\* ConversationWindow._is_duplicate
is_duplicate(msg1, msg2) ==
    /\ msg1.content = msg2.content
    /\ msg1.author = msg2.author
    /\ abs(msg1.timestamp - msg2.timestamp) < DuplicateSeconds

\* ConversationWindow(conversation_id, messages=[], window_size=n), with the
\* positive sizes its callers use (10 by default, 3 in the tests)
CreateWindow ==
    /\ pc = "no_window"
    /\ \E n \in 1..MaxWindowSize : window_size' = n
    /\ messages' = <<>>
    /\ pc' = "window"
    /\ UNCHANGED <<variant, baseVars, skillVars, last_updated, calls, managerVars>>

\* ConversationWindow.add_message
AddMessage ==
    /\ pc = "window"
    /\ Len(calls) < MaxAdds
    /\ \E message \in MessagesAt(now) :
        /\ calls' = Append(calls, message)
        /\ IF messages # <<>> /\ is_duplicate(message, messages[Len(messages)])
           THEN UNCHANGED <<messages, last_updated>>
           ELSE /\ messages' =
                    IF Len(messages) + 1 > window_size
                    THEN last_slice(Append(messages, message), window_size)
                    ELSE Append(messages, message)
                /\ last_updated' = now
    /\ UNCHANGED <<variant, baseVars, skillVars, pc, window_size, managerVars>>

\* seconds pass between two messages
WindowTick ==
    /\ pc = "window"
    /\ \E d \in {1, 4} :
        /\ now + d <= MaxWindowTime
        /\ now' = now + d
    /\ UNCHANGED <<variant, pc, last_request_time, pipeVars, decodeVars, extractVars,
                   limiterVars, results, candidate_url, agentVars, skillVars, windowVars,
                   chunkVars>>

InitWindow == Blank("window", "no_window", 0)

NextWindow ==
    \/ CreateWindow
    \/ AddMessage
    \/ WindowTick

SpecWindow == InitWindow /\ [][NextWindow]_vars

----------------------------------------------------------------------------
(* ConversationManager (orchestration/conversation/manager.py), time in minutes.
   A window is [conversation_id, id, last_updated]: id tells window objects apart. *)

\* ConversationWindow.context_ttl, in minutes
ContextTtl == 30

\* when window.py was imported: the dataclass default
\* "last_updated: datetime = datetime.now(UTC)" is evaluated once, at that time
ImportTime == 0

\* ConversationManager.max_windows (20 by default)
max_windows == 2

ConversationIds == {"conv1", "conv2"}

\* last_updated of a window built without the argument: the class default
default_last_updated(t) == ImportTime

\* ConversationWindow.is_stale
is_stale(window, t) == t - window.last_updated > ContextTtl

\* conversation_id in self.active_windows, and its position
Position(conversation_id) ==
    IF \E i \in 1..Len(active_windows) : active_windows[i].conversation_id = conversation_id
    THEN CHOOSE i \in 1..Len(active_windows) :
            active_windows[i].conversation_id = conversation_id
    ELSE 0

\* min(self.active_windows.keys(), key=last_updated): the first of the oldest
oldest(ws) ==
    CHOOSE i \in 1..Len(ws) :
        /\ \A j \in 1..Len(ws) : ws[i].last_updated <= ws[j].last_updated
        /\ \A j \in 1..(i - 1) : ws[j].last_updated > ws[i].last_updated

\* del d[key]
remove_at(ws, i) == [j \in 1..(Len(ws) - 1) |-> IF j < i THEN ws[j] ELSE ws[j + 1]]

\* d[key] = window: in place for a known key, at the end for a new one
assign(ws, window) ==
    IF \E i \in 1..Len(ws) : ws[i].conversation_id = window.conversation_id
    THEN [i \in 1..Len(ws) |->
            IF ws[i].conversation_id = window.conversation_id THEN window ELSE ws[i]]
    ELSE Append(ws, window)

\* the window get_or_create_window returns for conversation_id at time now
window_for(conversation_id) ==
    IF Position(conversation_id) > 0 /\ ~is_stale(active_windows[Position(conversation_id)], now)
    THEN [created |-> FALSE, window |-> active_windows[Position(conversation_id)]]
    ELSE [created |-> TRUE,
          window |-> [conversation_id |-> conversation_id, id |-> Len(window_calls) + 1,
                      last_updated |-> default_last_updated(now)]]

\* self.active_windows once get_or_create_window has returned w
windows_after(w) ==
    IF ~w.created THEN active_windows
    ELSE IF Len(active_windows) >= max_windows
         THEN assign(remove_at(active_windows, oldest(active_windows)), w.window)
         ELSE assign(active_windows, w.window)

\* ConversationManager.get_or_create_window
GetOrCreateWindow ==
    /\ pc = "manager"
    /\ Len(window_calls) < MaxManagerCalls
    /\ \E conversation_id \in ConversationIds :
        /\ active_windows' = windows_after(window_for(conversation_id))
        /\ window_calls' = Append(window_calls,
                [call |-> "get_or_create_window", at |-> now,
                 created |-> window_for(conversation_id).created,
                 window |-> window_for(conversation_id).window])
    /\ UNCHANGED <<variant, pc, baseVars, skillVars, window_size, messages, last_updated, calls>>

\* ConversationManager.add_message: the window is fetched, then add_message
\* stamps it (the message is new, so it is never taken for a duplicate)
ManagerAddMessage ==
    /\ pc = "manager"
    /\ Len(window_calls) < MaxManagerCalls
    /\ \E conversation_id \in ConversationIds :
        /\ active_windows' =
                assign(windows_after(window_for(conversation_id)),
                       [window_for(conversation_id).window EXCEPT !.last_updated = now])
        /\ window_calls' = Append(window_calls,
                [call |-> "add_message", at |-> now,
                 created |-> window_for(conversation_id).created,
                 window |-> [window_for(conversation_id).window EXCEPT !.last_updated = now]])
    /\ UNCHANGED <<variant, pc, baseVars, skillVars, window_size, messages, last_updated, calls>>

\* minutes pass between two calls
ManagerTick ==
    /\ pc = "manager"
    /\ \E d \in {10, 25} :
        /\ now + d <= MaxManagerTime
        /\ now' = now + d
    /\ UNCHANGED <<variant, pc, last_request_time, pipeVars, decodeVars, extractVars,
                   limiterVars, results, candidate_url, agentVars, skillVars, windowVars,
                   chunkVars>>

InitManager == Blank("manager", "manager", 0)

NextManager ==
    \/ GetOrCreateWindow
    \/ ManagerAddMessage
    \/ ManagerTick

SpecManager == InitManager /\ [][NextManager]_vars

----------------------------------------------------------------------------
(* The consent branch of get_article_content on URLs as text: a URL is the
   sequence of its pieces, so that the regular expression, unquote and the
   length of the URL are computed rather than looked up *)

\* the pieces: the consent host, "continue=" plain and percent-encoded, "&"
\* plain and percent-encoded, and a publisher's address
UrlPieces == {"consent.google.com", "continue=", "continue%3D", "&", "%26", "pub.example"}

\* len() of a piece
piece_len(p) ==
    CASE p = "consent.google.com" -> 18
      [] p = "continue=" -> 9
      [] p = "continue%3D" -> 11
      [] p = "&" -> 1
      [] p = "%26" -> 3
      [] OTHER -> 11

\* len() of a URL
RECURSIVE url_len(_)
url_len(u) == IF u = <<>> THEN 0 ELSE piece_len(Head(u)) + url_len(Tail(u))

\* urllib.parse.unquote, piece by piece
unquote(p) ==
    CASE p = "continue%3D" -> "continue="
      [] p = "%26" -> "&"
      [] OTHER -> p

\* the URLs get_article_content is called with
TextUrls == SeqsOf(UrlPieces, 1, MaxUrlPieces)

\* the interpreter's recursion limit (1000 frames), beyond any depth a URL of
\* MaxUrlPieces pieces can ask for
RecursionLimit == MaxUrlPieces + 2

\* "consent.google.com" in url
in_consent(u) == \E i \in 1..Len(u) : u[i] = "consent.google.com"

\* where re.search(r'continue=([^&]+)') matches: the first "continue=" that is
\* followed by something else than "&"; 0 when there is none
match_start(u) ==
    IF \E i \in 1..(Len(u) - 1) : u[i] = "continue=" /\ u[i + 1] # "&"
    THEN CHOOSE i \in 1..(Len(u) - 1) :
            /\ u[i] = "continue=" /\ u[i + 1] # "&"
            /\ \A j \in 1..(i - 1) : ~(u[j] = "continue=" /\ u[j + 1] # "&")
    ELSE 0

\* where group 1 ends: before the next "&", or at the end of the URL
match_end(u) ==
    IF \E k \in (match_start(u) + 1)..Len(u) : u[k] = "&"
    THEN (CHOOSE k \in (match_start(u) + 1)..Len(u) :
            /\ u[k] = "&"
            /\ \A j \in (match_start(u) + 1)..(k - 1) : u[j] # "&") - 1
    ELSE Len(u)

\* _extract_actual_url_from_consent on a URL as text: <<>> is None
extract_actual_url(u) ==
    IF match_start(u) = 0 THEN <<>>
    ELSE [i \in 1..(match_end(u) - match_start(u)) |-> unquote(u[match_start(u) + i])]

\* a consent branch that recurses into the URL it was given
text_consent_same(u) == IF in_consent(u) THEN u ELSE <<>>

\* the consent branch on a URL as text: the URL to recurse into, or <<>>
text_consent_target(u) ==
    IF in_consent(u) /\ extract_actual_url(u) # <<>> /\ extract_actual_url(u) # u
    THEN extract_actual_url(u)
    ELSE <<>>

\* a caller hands a URL to get_article_content
CallOnTextUrl ==
    /\ pc = "text_caller"
    /\ \E u \in TextUrls : urlChain' = <<u>>
    /\ pc' = "content_entry"
    /\ UNCHANGED <<variant, otherVars, now, last_request_time, pipeVars, decodeVars,
                   attempts, full_content, limiterVars>>

\* get_article_content through Trafilatura and the consent branch: a usable text
\* is returned, otherwise the call recurses into the consent target when there
\* is one, and goes on with its other strategies when there is none (or when
\* the recursion raised RecursionError, which the branch catches)
TrafilaturaThenConsent ==
    /\ pc = "content_entry"
    /\ \E extracted \in BOOLEAN :
        IF extracted
        THEN /\ pc' = "content_returned"
             /\ UNCHANGED urlChain
        ELSE IF /\ text_consent_target(urlChain[Len(urlChain)]) # <<>>
                /\ Len(urlChain) < RecursionLimit
             THEN /\ urlChain' = Append(urlChain, text_consent_target(urlChain[Len(urlChain)]))
                  /\ UNCHANGED pc
             ELSE /\ pc' = "content_rest"
                  /\ UNCHANGED urlChain
    /\ UNCHANGED <<variant, otherVars, now, last_request_time, pipeVars, decodeVars,
                   attempts, full_content, limiterVars>>

\* Newspaper3k, Playwright and the basic extraction: each ends, by its result or
\* by its timeout, and the innermost call returns
RemainingStrategies ==
    /\ pc = "content_rest"
    /\ pc' = "content_returned"
    /\ UNCHANGED <<variant, otherVars, now, last_request_time, pipeVars, decodeVars,
                   extractVars, limiterVars>>

\* every call of the chain returns what its recursive call returned
TextUrlReturn ==
    /\ pc = "content_returned"
    /\ urlChain' = <<>>
    /\ pc' = "text_caller"
    /\ UNCHANGED <<variant, otherVars, now, last_request_time, pipeVars, decodeVars,
                   attempts, full_content, limiterVars>>

InitConsent == Blank("consent", "text_caller", 0)

NextConsent ==
    \/ CallOnTextUrl
    \/ TrafilaturaThenConsent
    \/ RemainingStrategies
    \/ TextUrlReturn

\* a call that can take a step takes it: the interpreter keeps running
SpecConsent == InitConsent /\ [][NextConsent]_vars /\ WF_vars(NextConsent)

----------------------------------------------------------------------------
(* DiscordAdapter.send_message (interfaces/discord/adapter.py): a text is the
   sequence of its characters, positions count from 0 as in Python *)

\* DISCORD_MSG_LIMIT, scaled from 2000 so that a content of MaxContentLen
\* characters is cut into ten chunks; the part marker keeps its real length
DISCORD_MSG_LIMIT == 17

NL == "\n"

\* SECTION_DELIMITERS, in their order
SECTION_DELIMITERS == <<<<NL, NL, "*", "*">>, <<NL, "*", "*">>, <<NL, NL>>, <<NL>>>>

\* what a content holds besides letters: nothing, blanks, newlines, the
\* section delimiters, a complete markdown block
Features ==
    {<<>>, <<" ">>, <<NL>>, <<NL, NL>>, <<"*", "*">>, <<NL, "*", "*">>,
     <<NL, NL, "*", "*">>, <<"*", "*", "a", "*", "*">>, <<" ", NL, " ">>}

\* the contents longer than the limit: letters, with one feature at position at
Contents ==
    {[i \in 1..n |-> IF i > at /\ i <= at + Len(f) THEN f[i - at]
                     ELSE IF i % 2 = 1 THEN "a" ELSE "b"] :
        n \in (DISCORD_MSG_LIMIT + 1)..MaxContentLen, at \in 0..MaxFeatureAt,
        f \in Features}

\* s[:n]
prefix(s, n) == SubSeq(s, 1, IF n < Len(s) THEN n ELSE Len(s))

\* s[n:]
suffix_from(s, n) == SubSeq(s, n + 1, Len(s))

\* str.rfind
rfind(s, d) ==
    IF \E i \in 0..(Len(s) - Len(d)) : SubSeq(s, i + 1, i + Len(d)) = d
    THEN CHOOSE i \in 0..(Len(s) - Len(d)) :
            /\ SubSeq(s, i + 1, i + Len(d)) = d
            /\ \A j \in (i + 1)..(Len(s) - Len(d)) : SubSeq(s, j + 1, j + Len(d)) # d
    ELSE -1

\* str.strip
RECURSIVE strip_left(_)
strip_left(s) == IF s # <<>> /\ Head(s) \in {" ", NL} THEN strip_left(Tail(s)) ELSE s

RECURSIVE strip_right(_)
strip_right(s) ==
    IF s # <<>> /\ s[Len(s)] \in {" ", NL} THEN strip_right(SubSeq(s, 1, Len(s) - 1)) ELSE s

str_strip(s) == strip_right(strip_left(s))

\* the loop over SECTION_DELIMITERS from delimiter k on: the position of the
\* first delimiter found past position 0, or -1
RECURSIVE delimiter_split(_, _, _)
delimiter_split(text, limit, k) ==
    IF k > Len(SECTION_DELIMITERS) THEN -1
    ELSE IF rfind(prefix(text, limit), SECTION_DELIMITERS[k]) > 0
         THEN rfind(prefix(text, limit), SECTION_DELIMITERS[k])
         ELSE delimiter_split(text, limit, k + 1)

\* _find_best_split_point
find_best_split_point(text, limit) ==
    LET markdown_end == rfind(prefix(text, limit), <<"*", "*">>)
        markdown_start == IF markdown_end > 0
                          THEN rfind(prefix(text, markdown_end), <<"*", "*">>) ELSE -1
        last_space == rfind(prefix(text, limit), <<" ">>)
        section_end == delimiter_split(text, limit, 1)
    IN  IF section_end > 0 THEN section_end
        ELSE IF markdown_start >= 0 /\ markdown_end > markdown_start THEN markdown_end + 2
        ELSE IF last_space > 0 THEN last_space
        ELSE limit

\* number of digits of a part number
digits(n) == IF n < 10 THEN 1 ELSE IF n < 100 THEN 2 ELSE 3

\* len(CHUNK_MARKER_TEMPLATE.format(index, total)): "\n[Part ", "/" and "]"
\* around the two numbers
marker_len(index, total) == 9 + digits(index) + digits(total)

\* space left for a chunk: the limit less the marker "[Part 1/1]"
available_space == DISCORD_MSG_LIMIT - marker_len(1, 1)

\* the while loop of _chunk_message
RECURSIVE chunk_loop(_)
chunk_loop(remaining) ==
    LET split_point == find_best_split_point(remaining, available_space)
    IN  IF remaining = <<>> THEN <<>>
        ELSE IF Len(remaining) <= available_space THEN <<remaining>>
        ELSE <<str_strip(prefix(remaining, split_point))>>
                \o chunk_loop(str_strip(suffix_from(remaining, split_point)))

\* _chunk_message
chunk_message(text) ==
    IF Len(text) <= DISCORD_MSG_LIMIT THEN <<text>> ELSE chunk_loop(text)

\* _format_chunk without the marker it appends: the chunk, cut to the space the
\* marker of its own part number leaves
format_chunk(chunk, index, total) ==
    IF total > 1
    THEN prefix(chunk, DISCORD_MSG_LIMIT - marker_len(index + 1, total))
    ELSE chunk

\* send_message on a channel that exists, every send succeeding
SendMessage ==
    /\ pc = "send_caller"
    /\ \E text \in Contents :
        LET chunks == chunk_message(text)
        IN  /\ content' = text
            /\ chunks_sent' = [i \in 1..Len(chunks) |->
                                format_chunk(chunks[i], i - 1, Len(chunks))]
    /\ pc' = "message_sent"
    /\ UNCHANGED <<variant, now, last_request_time, pipeVars, decodeVars, extractVars,
                   limiterVars, results, candidate_url, agentVars, skillVars, windowVars>>

\* send_message returns
SendMessageReturn ==
    /\ pc = "message_sent"
    /\ content' = <<>>
    /\ chunks_sent' = <<>>
    /\ pc' = "send_caller"
    /\ UNCHANGED <<variant, now, last_request_time, pipeVars, decodeVars, extractVars,
                   limiterVars, results, candidate_url, agentVars, skillVars, windowVars>>

InitChunks == Blank("chunks", "send_caller", 0)

NextChunks ==
    \/ SendMessage
    \/ SendMessageReturn

SpecChunks == InitChunks /\ [][NextChunks]_vars

----------------------------------------------------------------------------
(* The qualified workflow (orchestration/workflows/qualified_workflow.py): one
   action per node, the edges of the graph in pc *)

\* what the keyword prompt is answered with in a workflow run
WorkflowKeywordResponses ==
    {[shape |-> "text", elements |-> <<>>]}
        \cup {[shape |-> "array", elements |-> es] : es \in SeqsOf(KeywordElements, 0, 1)}

\* what the article prompt is answered with in a workflow run
WorkflowArticleResponses ==
    {[shape |-> "text", elements |-> <<>>]}
        \cup {[shape |-> "array", elements |-> es] : es \in SeqsOf(ArticleElements, 0, 1)}

\* what the counter-argument prompt is answered with: unparsable text, a JSON
\* array of counter-argument objects, or a JSON array with another element
CounterArgumentResponses ==
    {[shape |-> "text", found |-> 0], [shape |-> "array", found |-> 0],
     [shape |-> "array", found |-> 1], [shape |-> "array_of_numbers", found |-> 1]}

\* the try of analyze_counter_arguments: a parsing error, a value that is not a
\* list and an element that is not an object all end in no counter-argument
parse_counter_arguments(r) ==
    IF r.shape = "array"
    THEN [i \in 1..r.found |-> [title |-> "A counter-argument", article_index |-> 0]]
    ELSE <<>>

\* what llm_service.execute answers a response prompt with
ResponseTexts == {"", "a response"}

\* workflow.invoke(workflow_input)
Invoke ==
    /\ pc = "workflow_caller"
    /\ \E needs \in BOOLEAN :
        state' = [NoState EXCEPT !.needs_counter_arguments = needs]
    /\ executed' = <<>>
    /\ pc' = "qualification"
    /\ UNCHANGED <<variant, baseVars, windowVars, keywords, llm_response, returned>>

\* qualify_message: skipped on request, otherwise the qualifier's verdict
Qualification ==
    /\ pc = "qualification"
    /\ \E skip \in BOOLEAN, verdict \in BOOLEAN :
        state' = IF skip THEN state ELSE [state EXCEPT !.needs_counter_arguments = verdict]
    /\ executed' = Append(executed, "qualification")
    /\ pc' = "get_context"
    /\ UNCHANGED <<variant, baseVars, windowVars, keywords, llm_response, returned>>

\* get_context, then route_by_qualification
GetContext ==
    /\ pc = "get_context"
    /\ executed' = Append(executed, "get_context")
    /\ pc' = IF state.needs_counter_arguments THEN "prepare_acknowledgment"
             ELSE "standard_response"
    /\ UNCHANGED <<variant, baseVars, windowVars, keywords, llm_response, returned, state>>

\* prepare_acknowledgment
PrepareAcknowledgment ==
    /\ pc = "prepare_acknowledgment"
    /\ state' = [state EXCEPT !.messages_to_send = Append(@, ACK)]
    /\ executed' = Append(executed, "prepare_acknowledgment")
    /\ pc' = "extract_keywords"
    /\ UNCHANGED <<variant, baseVars, windowVars, keywords, llm_response, returned>>

\* extract_keywords: KeywordExtractionService.execute
ExtractKeywords ==
    /\ pc = "extract_keywords"
    /\ \E r \in WorkflowKeywordResponses :
        state' = [state EXCEPT !.keywords = keyword_extraction(r)]
    /\ executed' = Append(executed, "extract_keywords")
    /\ pc' = "search_for_articles"
    /\ UNCHANGED <<variant, baseVars, windowVars, keywords, llm_response, returned>>

\* search_for_articles: ArticleSearchService.execute, whose prompt joins the
\* keywords before any try and raises TypeError on a keyword that is no string
SearchForArticles ==
    /\ pc = "search_for_articles"
    /\ executed' = Append(executed, "search_for_articles")
    /\ IF \A i \in 1..Len(state.keywords) : state.keywords[i].str
       THEN /\ \E r \in WorkflowArticleResponses :
                state' = [state EXCEPT !.articles =
                            article_search([i \in 1..Len(state.keywords) |->
                                                state.keywords[i].value], r)]
            /\ pc' = "analyze_counter_arguments"
       ELSE /\ pc' = "workflow_raised"
            /\ UNCHANGED state
    /\ UNCHANGED <<variant, baseVars, windowVars, keywords, llm_response, returned>>

\* analyze_counter_arguments, then route_by_counter_arguments; the prompt reads
\* article['title'] of every article before the try and raises TypeError on an
\* article that is no object
AnalyzeCounterArguments ==
    /\ pc = "analyze_counter_arguments"
    /\ executed' = Append(executed, "analyze_counter_arguments")
    /\ IF \A i \in 1..Len(state.articles) : state.articles[i].object
       THEN \E r \in CounterArgumentResponses :
                /\ state' = [state EXCEPT !.counter_arguments = parse_counter_arguments(r)]
                /\ pc' = IF Len(parse_counter_arguments(r)) > 0
                         THEN "counter_argument_response" ELSE "standard_response"
       ELSE /\ pc' = "workflow_raised"
            /\ UNCHANGED state
    /\ UNCHANGED <<variant, baseVars, windowVars, keywords, llm_response, returned>>

\* generate_standard_response
StandardResponse ==
    /\ pc = "standard_response"
    /\ \E text \in ResponseTexts : state' = [state EXCEPT !.response = text]
    /\ executed' = Append(executed, "standard_response")
    /\ pc' = "END"
    /\ UNCHANGED <<variant, baseVars, windowVars, keywords, llm_response, returned>>

\* generate_counter_argument_response
CounterArgumentResponse ==
    /\ pc = "counter_argument_response"
    /\ \E text \in ResponseTexts : state' = [state EXCEPT !.response = text]
    /\ executed' = Append(executed, "counter_argument_response")
    /\ pc' = "END"
    /\ UNCHANGED <<variant, baseVars, windowVars, keywords, llm_response, returned>>

InitWorkflow == Blank("workflow", "workflow_caller", 0)

NextWorkflow ==
    \/ Invoke
    \/ Qualification
    \/ GetContext
    \/ PrepareAcknowledgment
    \/ ExtractKeywords
    \/ SearchForArticles
    \/ AnalyzeCounterArguments
    \/ StandardResponse
    \/ CounterArgumentResponse

SpecWorkflow == InitWorkflow /\ [][NextWorkflow]_vars

----------------------------------------------------------------------------
(* Claims *)

Extractors == {"trafilatura", "newspaper", "playwright_trafilatura",
               "playwright_body", "basic_html"}

C1_WitnessTruncated ==
    pc = "returned" /\ Len(feed) = 2 /\ max_articles = 1 /\ Len(articles) = 1

\* C2 (as claimed): a text that get_article_content returns as a success (a
\* non-empty string) is never shorter than the 100-character threshold.
C2_NoShortSuccess ==
    pc = "content_returned" /\ Truthy(full_content) => full_content.len >= MinLen

\* C3 (as claimed): when get_article_content returns, the attempts on each URL ran
\* in the fixed order, nothing was attempted after an attempt that met the threshold,
\* and a returned text is that of the first attempt that met the threshold.
C3_FirstUsableStrategyWins ==
    pc = "content_returned" =>
        /\ \A i \in 1..Len(attempts) - 1 :
            \/ /\ ~attempts[i].ok
               /\ attempts[i + 1].url = attempts[i].url
               /\ attempts[i + 1].strategy > attempts[i].strategy
            \/ /\ attempts[i].strategy = 2
               /\ attempts[i + 1].url # attempts[i].url
               /\ attempts[i + 1].strategy = 1
        /\ Truthy(full_content) => attempts[Len(attempts)].ok

\* C4 (as claimed): get_article_content reports failure (None or an empty text)
\* only after the four fetching strategies have all been attempted on the URL it
\* was called with.
C4_FailureOnlyAfterAllStrategies ==
    pc = "content_returned" /\ ~Truthy(full_content) =>
        {1, 3, 4, 5} \subseteq
            {attempts[i].strategy : i \in {j \in 1..Len(attempts) :
                                            attempts[j].url = urlChain[1]}}

\* C4 (as claimed, second half): an attempt that yielded no text above the
\* threshold is followed by an attempt of a later strategy, unless it was the last
\* strategy of the order.
C4_FailedAttemptAdvances ==
    pc = "content_returned" =>
        LET last == attempts[Len(attempts)] IN last.ok \/ last.strategy = 5

events(log) == {log[i].ev : i \in 1..Len(log)}

\* C5 (as claimed): when the parameter-fetch step fails, both templates were
\* requested: a failure of the articles template is followed by the rss template.
C5_SecondaryTriedOnAnyPrimaryFailure ==
    /\ pc = "decode_returned"
    /\ "GET articles" \in events(netlog)
    /\ "POST batchexecute" \notin events(netlog)
    => "GET rss" \in events(netlog)

\* C6 (as claimed): every article's url is the entry's obfuscated link when the
\* decode failed and the decoded URL when it succeeded, and never null; here for
\* the articles of pipeline/search.py, whose url field is "link".
C6_UrlIsLinkOrDecoded ==
    variant = "legacy" =>
        \A i \in 1..Len(articles) :
            /\ articles[i].link # NoneUrl
            /\ articles[i].link \in {articles[i].google_link} \cup DecodedUrls

C8_EachRequestHasItsOwnAcquire ==
    /\ \A i \in 1..Len(netlog) :
        netlog[i].ev # "acquire" => i > 1 /\ netlog[i - 1].ev = "acquire"
    /\ \A i, j \in 1..Len(netlog) :
        i < j /\ netlog[i].ev # "acquire" /\ netlog[j].ev # "acquire"
            => netlog[j].at - netlog[i].at >= Delay

\* C9: in a sequential caller each return of _apply_rate_limit is at least Delay
\* after the previous one, last_request_time is the time of the latest return, and
\* N acquires span at least (N - 1) * Delay.
C9_SequentialSpacing ==
    variant = "limiter" =>
        /\ \A i \in 2..Len(returns) : returns[i] - returns[i - 1] >= Delay
        /\ Len(returns) >= 1 =>
            /\ last_request_time = returns[Len(returns)]
            /\ returns[Len(returns)] - returns[1] >= (Len(returns) - 1) * Delay

\* C9 witness: MaxAcquires acquires in rapid succession, each but the first slept.
C9_Witness ==
    /\ variant = "limiter"
    /\ Len(returns) = MaxAcquires
    /\ \A i \in 2..Len(returns) : returns[i] - returns[i - 1] = Delay

Done(t) == task[t].pc = "done"

\* C10 (as claimed): no two acquires of tasks sharing the limiter return less than
\* Delay apart.
C10_OneSlotPerInterval ==
    \A t1, t2 \in Tasks :
        t1 # t2 /\ Done(t1) /\ Done(t2) =>
            \/ task[t1].ret - task[t2].ret >= Delay
            \/ task[t2].ret - task[t1].ret >= Delay

\* C10 (amended): every acquire returns at least Delay after the value of
\* last_request_time it read.
C10_ReturnAfterReadLast ==
    \A t \in Tasks : Done(t) => task[t].ret >= task[t].read_last + Delay

\* C10 witness: a task read the time another task had written, slept and returned.
C10_Witness ==
    \E t1, t2 \in Tasks :
        /\ t1 # t2 /\ Done(t1) /\ Done(t2)
        /\ task[t2].read_last = task[t1].ret
        /\ task[t2].ret = task[t1].ret + Delay

\* position of the last separator of a path, 0 when it has none
LastSlash(p) ==
    IF \E i \in 1..Len(p) : p[i] = "/"
    THEN CHOOSE i \in 1..Len(p) : p[i] = "/" /\ \A j \in i + 1..Len(p) : p[j] # "/"
    ELSE 0

\* the URL has the expected shape: the aggregator's host, a path of at least two
\* segments, a route name right before the last separator
ExpectedShape(u) ==
    /\ ~u.raises
    /\ u.hostname = "news.google.com"
    /\ LastSlash(u.path) > 1
    /\ u.path[LastSlash(u.path) - 1] \in {"articles", "read"}

\* what follows the last separator (nothing: the empty string)
LastSegment(p) == IF LastSlash(p) < Len(p) THEN p[LastSlash(p) + 1] ELSE ""

\* C11: get_base64_str fails exactly on the URLs that do not have the expected
\* shape, with the invalid-format message whenever urlparse accepted the URL, and
\* on every other URL it succeeds with the last path segment as the token.
C11_TokenIffExpectedShape ==
    pc = "token_returned" =>
        /\ decode_result.status = ExpectedShape(candidate_url)
        /\ ~decode_result.status /\ ~candidate_url.raises
            => decode_result.message = "Invalid Google News URL format."
        /\ decode_result.status => base64_str = LastSegment(candidate_url.path)

\* C11 witness: a /rss/articles/<token> URL of the aggregator gave its token.
C11_Witness ==
    /\ pc = "token_returned"
    /\ candidate_url.hostname = "news.google.com"
    /\ candidate_url.path = <<"/", "read", "/", "articles", "/", "CBMiA">>
    /\ decode_result.status
    /\ base64_str = "CBMiA"

\* the reasons decode_google_news_url gives, each naming the step that failed
StepMessages ==
    {"Invalid Google News URL format.",
     "Failed to fetch data attributes with articles URL",
     "Failed to fetch data attributes with RSS URL",
     "Error in get_decoding_params",
     "Error in decode_url"}

\* C12: decode_google_news_url returns a success carrying what the decode call
\* gave, or a failure whose reason names the first step that failed; a step runs
\* only after the steps before it succeeded (no request after a format failure,
\* no POST without decoding parameters), and no exception leaves the decoder.
C12_FirstFailingStepReported ==
    /\ pc # "decode_raised"
    /\ pc \in {"get_decoding_params", "get_decoding_params_rss", "decode_url"}
        => get_base64_str(google_url).status
           /\ base64_str = get_base64_str(google_url).base64_str
    /\ pc = "get_decoding_params_rss" => "GET articles" \in events(netlog)
    /\ pc = "decode_url" => params.status
    /\ pc = "decode_returned" =>
        /\ decode_result.status
            => /\ decode_result.message = ""
               /\ decode_result.decoded_url \in DecodedUrls \cup NonUrlSlots
               /\ "POST batchexecute" \in events(netlog)
        /\ ~decode_result.status
            => /\ decode_result.message \in StepMessages
               /\ decode_result.decoded_url = NoneUrl
        /\ (decode_result.message = "Invalid Google News URL format.")
            = ~get_base64_str(google_url).status
        /\ ~get_base64_str(google_url).status
            => events(netlog) \subseteq {"acquire"}
        /\ decode_result.message \in
                {"Failed to fetch data attributes with articles URL",
                 "Failed to fetch data attributes with RSS URL",
                 "Error in get_decoding_params"}
            => /\ "GET articles" \in events(netlog)
               /\ "POST batchexecute" \notin events(netlog)
        /\ (decode_result.message = "Error in decode_url")
            = (~decode_result.status /\ "POST batchexecute" \in events(netlog))

\* C12 witness: both templates were requested, the POST was sent and failed, and
\* the decoder returned the failure of decode_url.
C12_Witness ==
    /\ pc = "decode_returned"
    /\ ~decode_result.status
    /\ decode_result.message = "Error in decode_url"
    /\ {"GET articles", "GET rss", "POST batchexecute"} \subseteq events(netlog)

\* C13 (as claimed): a success of the decoder carries an absolute http(s) URL.
C13_SuccessCarriesAbsoluteUrl ==
    pc = "decode_returned" /\ decode_result.status
        => decode_result.decoded_url \in DecodedUrls

\* C19 (as claimed): no network call of a pipeline run waits without a timeout for
\* an answer that never comes.
C19_NoCallWaitsForever == pc # "hung"

\* C14 (as claimed): an entry that cannot be processed is at most skipped: the
\* pipeline does not raise, and every entry with a parsable publish date has its
\* article in the list fetch_articles returns.
C14_EntryFailureDoesNotAbortBatch ==
    /\ pc # "main_raised"
    /\ pc = "legacy_returned" =>
        \A i \in 1..Len(entries) :
            published_iso(entries[i].published) # "ValueError"
                => \E j \in 1..Len(articles) : articles[j].google_link = entries[i].link

\* C15 (as claimed): when the feed source cannot be reached the pipeline does not
\* return a list.
C15_FeedFailurePropagates == pc = "returned" => ~bozo

\* C15 (amended): when the feed source cannot be reached fetch_articles raises
\* nothing, visits no entry and returns the empty list, as for a feed without
\* entries.
C15_FeedFailureReturnsEmptyList ==
    variant = "bot" /\ bozo =>
        /\ pc \in {"loop", "returned"}
        /\ entries = <<>>
        /\ articles = <<>>

\* C15 witness: fetch_articles returned after a feed fetch that failed.
C15_Witness == variant = "bot" /\ bozo /\ pc = "returned" /\ articles = <<>>

C16_AtMostFiveAttemptsPerEntry ==
    Cardinality({i \in 1..Len(attempts) : attempts[i].strategy # 2}) <= 5

\* the target the consent branch recurses into for a URL, None when there is none
UnwrapsTo(u) ==
    IF is_consent(u) /\ extract_actual_url_from_consent(u) \notin {NoneUrl, u}
    THEN extract_actual_url_from_consent(u)
    ELSE NoneUrl

\* C18: for a consent URL with a target other than itself, the unwrapping is the
\* step right after a boilerplate-stripping attempt that gave no usable text on
\* it; the next attempt is the first strategy on the target, the target's
\* attempts run in the strategies' order, and no article-parser, headless or
\* tag-stripping attempt is ever made on the consent URL.
C18_ConsentUnwrapIsSecondStep ==
    /\ \A i \in 1..Len(attempts) :
        /\ attempts[i].strategy = 1 /\ ~attempts[i].ok
                /\ UnwrapsTo(attempts[i].url) # NoneUrl
            => /\ i + 1 <= Len(attempts)
               /\ attempts[i + 1].strategy = 2
               /\ attempts[i + 1].url = attempts[i].url
        /\ attempts[i].strategy = 2
            => /\ i > 1
               /\ attempts[i - 1] = [url |-> attempts[i].url, strategy |-> 1, ok |-> FALSE]
               /\ UnwrapsTo(attempts[i].url) # NoneUrl
               /\ i < Len(attempts) =>
                    /\ attempts[i + 1].url = UnwrapsTo(attempts[i].url)
                    /\ attempts[i + 1].strategy = 1
               /\ \A j \in i + 1..Len(attempts) : attempts[j].url # attempts[i].url
        /\ i < Len(attempts) /\ attempts[i].strategy # 2
            => /\ attempts[i + 1].url = attempts[i].url
               /\ attempts[i + 1].strategy > attempts[i].strategy
    /\ pc = "get_article_content" /\ Len(attempts) > 0 =>
        /\ attempts[Len(attempts)].strategy = 2
        /\ urlChain[Len(urlChain)] = UnwrapsTo(attempts[Len(attempts)].url)

\* C18 witness: a consent URL was unwrapped after its first strategy failed, and
\* all four fetching strategies then ran on the target.
C18_Witness ==
    /\ pc = "content_returned"
    /\ urlChain = <<U_CONSENT, U_PUB>>
    /\ [i \in 1..Len(attempts) |-> attempts[i].strategy] = <<1, 2, 1, 3, 4, 5>>
    /\ attempts[1].url = U_CONSENT /\ attempts[2].url = U_CONSENT
    /\ \A i \in 3..6 : attempts[i].url = U_PUB

\* the messages sent in reply to an event, in order
SentFor(e) == SelectSeq(sent, LAMBDA m : m.reply_to = e.event_id)

\* C20 (as claimed): for a handled event that needed counter-arguments, came
\* through a channel with a registered adapter and got a response, at least two
\* messages were sent through that adapter, the acknowledgment first.
C20_AcknowledgmentThenResponse ==
    \A i \in 1..Len(handled) :
        /\ handled[i].needs
        /\ handled[i].response # NoResponse
        /\ Len(SentFor(handled[i].event)) > 0
        => /\ Len(SentFor(handled[i].event)) >= 2
           /\ SentFor(handled[i].event)[1].content = ACK

\* C21 (as claimed): for a handled event that did not need counter-arguments,
\* came through a channel with a registered adapter and got a response, exactly
\* one message was sent through that adapter, and it is the response, not the
\* acknowledgment.
C21_SimpleQuerySendsOnlyTheResponse ==
    \A i \in 1..Len(handled) :
        /\ ~handled[i].needs
        /\ handled[i].adapter
        /\ handled[i].response # NoResponse
        => /\ Len(SentFor(handled[i].event)) = 1
           /\ SentFor(handled[i].event)[1].content = handled[i].response

\* an element of a returned article list is an article with a non-empty title,
\* a non-empty content and a url that starts with "http"
WellFormedArticle(a) ==
    /\ a.object
    /\ a.dict["title"] # <<>>
    /\ a.dict["content"] # <<>>
    /\ startswith_http(a.dict["url"])

\* C22 (as claimed): for every non-empty keyword list and every LLM response,
\* ArticleSearchService.execute returns a non-empty list of articles that each
\* have a non-empty title, a non-empty content and a url starting with "http".
C22_SearchReturnsWellFormedArticles ==
    returned.service = "article_search"
        => /\ returned.value # <<>>
           /\ \A i \in 1..Len(returned.value) : WellFormedArticle(returned.value[i])

\* C23 (as claimed): for every LLM response, KeywordExtractionService.execute
\* returns exactly 3 keywords, each a string that is not blank.
C23_ThreeNonBlankKeywords ==
    returned.service = "keyword_extraction"
        => /\ Len(returned.value) = 3
           /\ \A i \in 1..3 : /\ returned.value[i].str
                               /\ strip(returned.value[i].value) # ""

\* the messages of a call log that did not duplicate the message kept before them
RECURSIVE NonDuplicates(_)
NonDuplicates(log) ==
    IF log = <<>> THEN <<>>
    ELSE IF NonDuplicates(SubSeq(log, 1, Len(log) - 1)) # <<>>
            /\ is_duplicate(log[Len(log)],
                    NonDuplicates(SubSeq(log, 1, Len(log) - 1))
                        [Len(NonDuplicates(SubSeq(log, 1, Len(log) - 1)))])
         THEN NonDuplicates(SubSeq(log, 1, Len(log) - 1))
         ELSE Append(NonDuplicates(SubSeq(log, 1, Len(log) - 1)), log[Len(log)])

\* the n most recent elements of a list, none when n = 0
MostRecent(lst, n) ==
    IF n >= Len(lst) THEN lst ELSE SubSeq(lst, Len(lst) - n + 1, Len(lst))

\* C24: after any sequence of add_message calls the window holds at most
\* window_size messages, and they are the most recently added non-duplicate
\* messages, in the order they were added.
C24_WindowHoldsMostRecent ==
    pc = "window"
        => /\ Len(messages) <= window_size
           /\ messages = MostRecent(NonDuplicates(calls), window_size)

\* a duplicate was dropped and the oldest message was pushed out of the window
C24_Witness ==
    /\ pc = "window"
    /\ Len(calls) = MaxAdds
    /\ Len(NonDuplicates(calls)) = MaxAdds - 1
    /\ Len(messages) = window_size
    /\ Len(messages) < Len(NonDuplicates(calls))

\* C30 (as claimed): a window that get_or_create_window has just created is not
\* stale when it is returned, however long the process has been running.
C30_NewWindowIsNotStale ==
    \A i \in 1..Len(window_calls) :
        window_calls[i].call = "get_or_create_window" /\ window_calls[i].created
            => ~is_stale(window_calls[i].window, window_calls[i].at)

\* the nodes of the counter-argument path up to the analysis
CounterArgumentPath ==
    <<"qualification", "get_context", "prepare_acknowledgment", "extract_keywords",
      "search_for_articles", "analyze_counter_arguments">>

\* the path the claim gives for the state a run has ended in
ClaimedPath ==
    IF ~state.needs_counter_arguments
    THEN <<"qualification", "get_context", "standard_response">>
    ELSE Append(CounterArgumentPath,
                IF Len(state.counter_arguments) > 0 THEN "counter_argument_response"
                ELSE "standard_response")

\* C25 (as claimed): no run of the workflow ends without reaching END; at END
\* the executed nodes are the claimed path (with exactly one response node, the
\* last), the response is non-empty, and keywords and articles are non-empty
\* whenever needs_counter_arguments is true.
C25_WorkflowReachesEndWithResults ==
    /\ pc # "workflow_raised"
    /\ pc = "END"
        => /\ executed = ClaimedPath
           /\ state.response # ""
           /\ state.needs_counter_arguments
                => state.keywords # <<>> /\ state.articles # <<>>

\* C26 (as claimed): when decode_google_news_url is called with an interval, the
\* call sleeps for that interval before it returns exactly when the decode
\* succeeded, and does not sleep when one of the three steps failed.
C26_DelayExactlyOnSuccess ==
    [][(interval > 0 /\ pc # "decode_returned" /\ pc' = "decode_returned")
        => now' - now = (IF decode_result'.status THEN interval ELSE 0)]_vars

\* every recursive call of the running chain is on a URL strictly shorter than
\* the URL it was extracted from
StrictlyShorter ==
    \A i \in 1..(Len(urlChain) - 1) : url_len(urlChain[i + 1]) < url_len(urlChain[i])

\* C27: get_article_content terminates for every URL: each recursive call of
\* the consent branch is made on a strictly shorter URL, and every call that
\* was entered returns.
C27_ConsentRecursionTerminates ==
    /\ [](variant = "consent" => StrictlyShorter)
    /\ (variant = "consent" /\ pc = "content_entry") ~> (pc = "content_returned")

\* a consent URL whose continue parameter is itself a consent URL has been
\* unwrapped twice and the innermost call has returned
C27_Witness ==
    /\ variant = "consent"
    /\ pc = "content_returned"
    /\ Len(urlChain) = 3
    /\ in_consent(urlChain[2])
    /\ \E i \in 1..Len(urlChain[1]) : urlChain[1][i] = "continue%3D"

\* the calls that went past the check for an event id: finished and suspended
ProcessedCalls(id) ==
    Cardinality({i \in 1..Len(handled) :
                    handled[i].processed /\ handled[i].event.event_id = id})
        + Cardinality({t \in Tasks : running[t].event.event_id = id})

\* the messages stored for an event id
StoredFor(id) ==
    Cardinality({i \in 1..Len(message_repository) :
                    message_repository[i].kind = "message" /\ message_repository[i].of = id})

\* C28: whatever the interleaving of the handle_event calls, for every event id
\* at most one call stores the message, sends the acknowledgment and invokes
\* the workflow, and every other call with that id returns None.
C28_EventProcessedAtMostOnce ==
    variant = "agent_tasks" =>
        /\ \A id \in {e.event_id : e \in Events} :
            /\ ProcessedCalls(id) <= 1
            /\ StoredFor(id) <= 1
            /\ Cardinality({i \in 1..Len(sent) : sent[i].reply_to = id}) <= 1
        /\ \A i \in 1..Len(handled) :
            ~handled[i].processed => handled[i].response = NoResponse

\* a second call with an event id returned None while the first call with that
\* id was suspended in the send of its acknowledgment
C28_Witness ==
    /\ variant = "agent_tasks"
    /\ \E t \in Tasks, i \in 1..Len(handled) :
        /\ running[t].pc = "resume"
        /\ handled[i].event.event_id = running[t].event.event_id
        /\ handled[i].task # t
        /\ ~handled[i].processed

\* the characters of a text that are no whitespace, in order
NonWhitespace(text) == SelectSeq(text, LAMBDA c : c \notin {" ", NL})

\* the chunks of a list, concatenated in order
RECURSIVE Concatenated(_)
Concatenated(cs) == IF cs = <<>> THEN <<>> ELSE Head(cs) \o Concatenated(Tail(cs))

\* C29 (as claimed): for every content longer than the limit, the chunk bodies
\* sent, concatenated in order, hold the non-whitespace characters of the
\* content, none dropped and none duplicated, whatever the number of chunks.
C29_ChunksCarryWholeContent ==
    pc = "message_sent"
        => NonWhitespace(Concatenated(chunks_sent)) = NonWhitespace(content)

====
